---------------------------- MODULE Spec2Model ----------------------------
(***************************************************************************)
(* A model of the PDF Utilities MCP server: the page-range parser of       *)
(* PDFTools (pdf-tools.js), the PDFTools engine methods acting on storage, *)
(* and the tools/call request handler of PDFUtilitiesServer (index.js).    *)
(*                                                                         *)
(* A JavaScript string is a sequence of one-character strings, so that     *)
(* split, trim, includes and parseInt are computed character by character. *)
(***************************************************************************)
EXTENDS Integers, Sequences, FiniteSets, TLC

VARIABLES
    range,        \* parsePageRange: the `range` argument
    totalPages,   \* parsePageRange: the `totalPages` argument
    pages,        \* parsePageRange: the returned array of 0-based indices
    rpc,          \* "input" before parsePageRange ran, "returned" after
    fs,           \* storage: path -> document, for the paths that exist
    calls,        \* the tools/call requests accepted so far, in order
    loop,         \* parsePageRange run statement by statement: its locals
    ext,          \* the VS Code extension: host APIs, activation, commands, UI
    chat          \* the @pdf chat participant's handler for one request

vars == <<range, totalPages, pages, rpc, fs, calls, loop, ext, chat>>

---------------------------------------------------------------------------
(* Bounds *)

\* longest page-range expression drawn as input of parsePageRange
MaxLen == 5

\* the characters page-range expressions are drawn from
Alphabet == {"0", "2", "3", "9", "-", ",", " ", "a"}

\* the page counts parsePageRange is run against
TotalPagesChoices == {1, 3, 20}

\* the expressions the documentation names that the alphabet does not spell
NamedExpressions ==
    { <<"2", "5">>, <<"1", "8", "-", "2", "5">>, <<"1", "-", "3", "-", "5">>,
      <<"5", "a", "b", "c">> }

Expressions == UNION {[1..n -> Alphabet] : n \in 0..MaxLen} \cup NamedExpressions

---------------------------------------------------------------------------
(* JavaScript string primitives *)

DigitChars == {"0", "1", "2", "3", "4", "5", "6", "7", "8", "9"}

WhiteSpaceChars == {" "}

DigitValue(c) ==
    CASE c = "0" -> 0 [] c = "1" -> 1 [] c = "2" -> 2 [] c = "3" -> 3
      [] c = "4" -> 4 [] c = "5" -> 5 [] c = "6" -> 6 [] c = "7" -> 7
      [] c = "8" -> 8 [] c = "9" -> 9

\* String.prototype.includes for a one-character needle
Includes(s, ch) == \E k \in 1..Len(s) : s[k] = ch

RECURSIVE TrimStart(_)
TrimStart(s) ==
    IF s # <<>> /\ Head(s) \in WhiteSpaceChars THEN TrimStart(Tail(s)) ELSE s

RECURSIVE TrimEnd(_)
TrimEnd(s) ==
    IF s # <<>> /\ s[Len(s)] \in WhiteSpaceChars
    THEN TrimEnd(SubSeq(s, 1, Len(s) - 1))
    ELSE s

\* String.prototype.trim
Trim(s) == TrimEnd(TrimStart(s))

\* String.prototype.split for a one-character separator: the pieces between
\* the separators, empty pieces included ("" splits into [""])
RECURSIVE Split(_, _)
Split(s, sep) ==
    IF ~Includes(s, sep)
    THEN <<s>>
    ELSE LET k == CHOOSE j \in 1..Len(s) :
                      s[j] = sep /\ \A m \in 1..(j - 1) : s[m] # sep
         IN  <<SubSeq(s, 1, k - 1)>> \o Split(SubSeq(s, k + 1, Len(s)), sep)

\* the JavaScript number NaN, and a finite integer
NaN == [nan |-> TRUE, val |-> 0]

Num(n) == [nan |-> FALSE, val |-> n]

RECURSIVE DigitPrefix(_)
DigitPrefix(s) ==
    IF s # <<>> /\ Head(s) \in DigitChars
    THEN <<Head(s)>> \o DigitPrefix(Tail(s))
    ELSE <<>>

RECURSIVE DigitsValue(_)
DigitsValue(ds) ==
    IF ds = <<>> THEN 0
    ELSE 10 * DigitsValue(SubSeq(ds, 1, Len(ds) - 1)) + DigitValue(ds[Len(ds)])

\* parseInt(string) with the radix left out: leading white space is skipped,
\* one sign is read, then the longest run of decimal digits; what follows the
\* digits is ignored, and no digit at all gives NaN
ParseInt(str) ==
    LET s      == TrimStart(str)
        signed == s # <<>> /\ Head(s) \in {"+", "-"}
        body   == IF signed THEN Tail(s) ELSE s
        ds     == DigitPrefix(body)
    IN  IF ds = <<>> THEN NaN
        ELSE IF signed /\ Head(s) = "-" THEN Num(0 - DigitsValue(ds))
        ELSE Num(DigitsValue(ds))

\* a >= b and a <= b on JavaScript numbers: false when either is NaN
JsGeq(a, b) == ~a.nan /\ ~b.nan /\ a.val >= b.val

JsLeq(a, b) == ~a.nan /\ ~b.nan /\ a.val <= b.val

---------------------------------------------------------------------------
(* PDFTools.parsePageRange *)

\* the loop with `i < end` in place of `i <= end`
RangeLoopExclusive(start, end, total) ==
    IF ~JsLeq(start, end) THEN <<>>
    ELSE LET visited == [k \in 1..(end.val - start.val) |-> start.val + k - 1]
             kept    == SelectSeq(visited, LAMBDA i : i >= 1 /\ i <= total)
         IN  [k \in 1..Len(kept) |-> kept[k] - 1]

\* the loop without its test `i >= 1 && i <= totalPages`
RangeLoopUnfiltered(start, end, total) ==
    IF ~JsLeq(start, end) THEN <<>>
    ELSE [k \in 1..(end.val - start.val + 1) |-> start.val + k - 2]

\* for (let i = start; i <= end; i++) if (i >= 1 && i <= totalPages) pages.push(i - 1)
RangeLoop(start, end, total) ==
    IF ~JsLeq(start, end) THEN <<>>
    ELSE LET visited == [k \in 1..(end.val - start.val + 1) |-> start.val + k - 1]
             kept    == SelectSeq(visited, LAMBDA i : i >= 1 /\ i <= total)
         IN  [k \in 1..Len(kept) |-> kept[k] - 1]

\* the body of `for (const part of parts)`: what one part pushes
PartPages(part, total) ==
    IF Includes(part, "-")
    THEN LET pieces == Split(part, "-")
             nums   == [k \in 1..Len(pieces) |-> ParseInt(Trim(pieces[k]))]
         IN  RangeLoop(nums[1], nums[2], total)
    ELSE LET pageNum == ParseInt(Trim(part))
         IN  IF JsGeq(pageNum, Num(1)) /\ JsLeq(pageNum, Num(total))
             THEN <<pageNum.val - 1>>
             ELSE <<>>

RECURSIVE PushParts(_, _)
PushParts(parts, total) ==
    IF parts = <<>> THEN <<>>
    ELSE PartPages(Head(parts), total) \o PushParts(Tail(parts), total)

\* a page already pushed is not pushed again (pages collected in a Set)
RECURSIVE Dedup(_)
Dedup(s) ==
    IF s = <<>> THEN <<>>
    ELSE LET front == Dedup(SubSeq(s, 1, Len(s) - 1))
         IN  IF \E k \in 1..Len(front) : front[k] = s[Len(s)]
             THEN front
             ELSE Append(front, s[Len(s)])

parsePageRangeDedup(r, total) == Dedup(PushParts(Split(r, ","), total))

parsePageRange(r, total) == PushParts(Split(r, ","), total)

---------------------------------------------------------------------------
(* JavaScript values of the argument record and of the result payloads,    *)
(* tagged with their typeof                                                *)

Undefined == [t |-> "undefined", v |-> ""]

Str(s) == [t |-> "string", v |-> s]

NumV(n) == [t |-> "number", v |-> n]

Bool(b) == [t |-> "boolean", v |-> b]

Arr(seq) == [t |-> "array", v |-> seq]

Obj(rec) == [t |-> "object", v |-> rec]

\* ToBoolean, as `if (x)`, `!x` and `x || y` apply it
Truthy(x) ==
    CASE x.t = "undefined" -> FALSE
      [] x.t = "string"    -> Len(x.v) > 0
      [] x.t = "number"    -> x.v # 0
      [] x.t = "boolean"   -> x.v
      [] OTHER             -> TRUE

\* ToString of a path or a number, as a template literal `${x}` applies it
ToStr(x) ==
    CASE x.t = "undefined" -> "undefined"
      [] x.t = "number"    -> ToString(x.v)
      [] OTHER             -> x.v

\* JSON.stringify of an object: a property whose value is undefined is left out
JsonStringify(rec) == [k \in {f \in DOMAIN rec : rec[f] # Undefined} |-> rec[k]]

---------------------------------------------------------------------------
(* Storage: fs maps each existing path to the document stored there.  Every *)
(* directory a path names is taken to exist.                                *)

NoDoc == [pages |-> <<>>, title |-> Undefined, author |-> Undefined,
          subject |-> Undefined, keywords |-> Undefined,
          creator |-> Undefined, producer |-> Undefined, modified |-> Undefined]

\* PDFDocument.create(): no page, no metadata
EmptyDocument == NoDoc

\* fs.existsSync: false for whatever is not the path of an existing file
existsSync(files, path) == path.t = "string" /\ path.v \in DOMAIN files

\* fs.writeFileSync(path, bytes) on storage `files`
writeFileSync(files, path, doc) ==
    [q \in DOMAIN files \cup {path.v} |-> IF q = path.v THEN doc ELSE files[q]]

\* fs.statSync(path).size, in pages: a function of the bytes stored at the path
FileSize(doc) == Len(doc.pages)

\* PDFDocument.save(): a document without a page is given one blank page
\* (pdf-lib's addDefaultPage)
Saved(doc) == IF doc.pages = <<>> THEN [doc EXCEPT !.pages = <<"blank">>] ELSE doc

\* the copies added last to first
CopyPagesReversed(doc, indices) ==
    [k \in 1..Len(indices) |-> doc.pages[indices[Len(indices) - k + 1] + 1]]

\* newPdf.copyPages(pdfDoc, indices), the copies then added in order
CopyPages(doc, indices) == [k \in 1..Len(indices) |-> doc.pages[indices[k] + 1]]

---------------------------------------------------------------------------
(* Outcomes of the engine methods and the result envelope of the handler    *)

\* `throw new Error(message)`, or a TypeError raised by the runtime
Thrown(message) == [threw |-> TRUE, message |-> message, value |-> <<>>]

Returned(value) == [threw |-> FALSE, message |-> "", value |-> value]

NoResult == [content |-> <<>>, isError |-> FALSE, escaped |-> FALSE]

\* the handler's `return { content: [{ type: 'text', text: JSON.stringify(result) }] }`
SuccessEnvelope(value) ==
    [content |-> <<[type |-> "text", text |-> JsonStringify(value)]>>,
     isError |-> FALSE, escaped |-> FALSE]

\* a handler whose catch block rethrows: the error reaches the transport
CatchRethrow(message) == [content |-> <<>>, isError |-> TRUE, escaped |-> TRUE]

\* a catch block that reports the message alone, without success: false
CatchMessageOnly(message) ==
    [content |-> <<[type |-> "text",
                    text |-> JsonStringify([error |-> Str(message)])]>>,
     isError |-> TRUE, escaped |-> FALSE]

\* the handler's catch block
Catch(message) ==
    [content |-> <<[type |-> "text",
                    text |-> JsonStringify([error |-> Str(message),
                                            success |-> Bool(FALSE)])]>>,
     isError |-> TRUE, escaped |-> FALSE]

Envelope(outcome) ==
    IF outcome.threw THEN Catch(outcome.message) ELSE SuccessEnvelope(outcome.value)

---------------------------------------------------------------------------
(* Storage and the calls: initial values *)

\* the documents on storage when the server starts
InitialFiles ==
    [p \in {"a.pdf", "b.pdf"} |->
        IF p = "a.pdf"
        THEN [NoDoc EXCEPT !.pages = <<"a1", "a2">>, !.title = Str("Report"),
                           !.author = Str("Ann"), !.modified = Str("original")]
        ELSE [NoDoc EXCEPT !.pages = <<"b1">>, !.modified = Str("original")]]

InitServer ==
    /\ fs = InitialFiles
    /\ calls = <<>>

---------------------------------------------------------------------------
(* The VS Code extension (extension.ts): the host it is activated in       *)

\* what the host offers: the pdfUtilities.disableMCP setting, the MCP
\* registration API and the chat participant API (absent, present, or present
\* and throwing when called), the bundled server file, and the hasShownWelcome
\* flag of the global state
Environments ==
    [mcpDisabled : BOOLEAN, mcpApi : {"absent", "present", "throws"},
     chatApi : {"absent", "present", "throws"}, serverFile : BOOLEAN,
     hasShownWelcome : BOOLEAN]

\* the extension before activate() runs in host `env`
NotActivated(env) ==
    [env |-> env, activated |-> "no", mcpAvailable |-> FALSE,
     chatParticipantAvailable |-> FALSE, commands |-> {}, subscriptions |-> {},
     hasShownWelcome |-> env.hasShownWelcome, ui |-> <<>>, invoked |-> <<>>]

\* the parts a specification of the server leaves alone
NoExtension ==
    NotActivated([mcpDisabled |-> FALSE, mcpApi |-> "present", chatApi |-> "present",
                  serverFile |-> TRUE, hasShownWelcome |-> FALSE])

NoChat == [pc |-> "idle"]

NoLoop == [pc |-> "idle"]

Idle ==
    /\ ext = NoExtension
    /\ chat = NoChat
    /\ loop = NoLoop

---------------------------------------------------------------------------
(* A tools/call request and the handler's call in flight *)

ToolNames == {"read_pdf", "get_pdf_info", "create_pdf", "merge_pdfs",
              "split_pdf", "update_pdf_metadata", "extract_pages"}

\* an argument record with no property set
NoArgs == [filePath |-> Undefined, pageRange |-> Undefined, content |-> Undefined,
           outputPath |-> Undefined, options |-> Undefined, filePaths |-> Undefined,
           metadata |-> Undefined, pages |-> Undefined, outputDir |-> Undefined,
           prefix |-> Undefined]

NoMetadata == [title |-> Undefined, author |-> Undefined, subject |-> Undefined,
               keywords |-> Undefined]

Request(name, arguments) == [name |-> name, arguments |-> arguments]

\* the handler invoked for a request, before its first statement
NewCall(req) ==
    [name |-> req.name, arguments |-> req.arguments, pc |-> "entered", i |-> 0,
     doc |-> NoDoc, acc |-> <<>>, files |-> <<>>, result |-> NoResult,
     invoked |-> "none", wrote |-> {}]

\* the handler returns the envelope of `outcome`
Finish(call, outcome) == [call EXCEPT !.pc = "returned", !.result = Envelope(outcome)]

\* an engine that keeps the document it loaded last and serves it to later calls
OpenSourceCached(call, files, nextpc) ==
    LET filePath == call.arguments.v.filePath
        loaded   == {k \in 1..Len(calls) : calls[k].doc # NoDoc}
        last     == CHOOSE k \in loaded : \A j \in loaded : j <= k
    IN  IF ~existsSync(files, filePath)
        THEN Finish(call, Thrown("File not found: " \o ToStr(filePath)))
        ELSE [call EXCEPT !.doc = IF loaded = {} THEN files[filePath.v] ELSE calls[last].doc,
                          !.pc = nextpc]

\* if (!existsSync(filePath)) throw ...; readFileSync(filePath); the method then
\* awaits the parse or load of the bytes
OpenSource(call, files, nextpc) ==
    LET filePath == call.arguments.v.filePath
    IN  IF ~existsSync(files, filePath)
        THEN Finish(call, Thrown("File not found: " \o ToStr(filePath)))
        ELSE [call EXCEPT !.doc = files[filePath.v], !.pc = nextpc]

\* extractPages from the top of its loop, i - 1 pages written: the loop ends
\* and the method returns, or the i-th number is refused, or the i-th page is
\* built (awaits) and written next
ExtractLoop(call, i) ==
    LET nums == call.arguments.v.pages
    IN  IF nums.t # "array"
        THEN Finish(call, Thrown("pages is not iterable"))
        ELSE IF i > Len(nums.v)
        THEN Finish(call, Returned([success |-> Bool(TRUE), files |-> Arr(call.files)]))
        ELSE IF nums.v[i] < 1 \/ nums.v[i] > Len(call.doc.pages)
        THEN Finish(call, Thrown("Invalid page number: " \o ToString(nums.v[i])))
        ELSE [call EXCEPT !.pc = "extractWrite", !.i = i]

\* a merge without the check of filePaths.length: an empty list skips the loop
MergeEntryUnchecked(call) ==
    LET filePaths == call.arguments.v.filePaths
    IN  IF filePaths.t = "undefined"
        THEN Finish(call, Thrown("Cannot read properties of undefined (reading 'length')"))
        ELSE IF filePaths.t # "array"
        THEN Finish(call, Thrown("filePaths is not iterable"))
        ELSE IF Len(filePaths.v) = 0
        THEN [call EXCEPT !.pc = "mergeWrite"]
        ELSE [call EXCEPT !.pc = "mergeRead", !.i = 1]

\* mergePDFs up to its first await
MergeEntry(call) ==
    LET filePaths == call.arguments.v.filePaths
    IN  IF filePaths.t = "undefined"
        THEN Finish(call, Thrown("Cannot read properties of undefined (reading 'length')"))
        ELSE IF filePaths.t # "array"
        THEN Finish(call, Thrown("filePaths is not iterable"))
        ELSE IF Len(filePaths.v) = 0
        THEN Finish(call, Thrown("No PDF files provided for merging"))
        ELSE [call EXCEPT !.pc = "mergeRead", !.i = 1]

\* the handler from its first statement to the first await of the engine method
Enter(call, files) ==
    IF ~Truthy(call.arguments)
    THEN Finish(call, Thrown("Missing arguments for tool call"))
    ELSE IF call.name \notin ToolNames
    THEN Finish(call, Thrown("Unknown tool: " \o call.name))
    ELSE LET c == [call EXCEPT !.invoked = call.name]
         IN  CASE c.name = "read_pdf"            -> OpenSource(c, files, "stat")
               [] c.name = "get_pdf_info"        -> OpenSource(c, files, "stat")
               [] c.name = "create_pdf"          -> [c EXCEPT !.pc = "create"]
               [] c.name = "merge_pdfs"          -> MergeEntry(c)
               [] c.name = "split_pdf"           -> OpenSource(c, files, "split")
               [] c.name = "update_pdf_metadata" -> OpenSource(c, files, "update")
               [] c.name = "extract_pages"       ->
                    LET o == OpenSource(c, files, "extract")
                    IN  IF o.pc = "returned" THEN o ELSE ExtractLoop(o, 1)

\* writeFileSync refuses a path that is no string
WriteError(path) ==
    "The \"path\" argument must be of type string or an instance of Buffer or URL. Received "
        \o ToStr(path)

---------------------------------------------------------------------------
(* The declared operation catalogue (the ListTools handler's inputSchema)   *)

RequiredFields ==
    [n \in ToolNames |->
        CASE n = "read_pdf"            -> {"filePath"}
          [] n = "get_pdf_info"        -> {"filePath"}
          [] n = "create_pdf"          -> {"content", "outputPath"}
          [] n = "merge_pdfs"          -> {"filePaths", "outputPath"}
          [] n = "split_pdf"           -> {"filePath", "pageRange", "outputPath"}
          [] n = "update_pdf_metadata" -> {"filePath", "metadata"}
          [] n = "extract_pages"       -> {"filePath", "pages", "outputDir"}]

DeclaredProperties ==
    [n \in ToolNames |->
        CASE n = "read_pdf"            -> {"filePath", "pageRange"}
          [] n = "get_pdf_info"        -> {"filePath"}
          [] n = "create_pdf"          -> {"content", "outputPath", "options"}
          [] n = "merge_pdfs"          -> {"filePaths", "outputPath"}
          [] n = "split_pdf"           -> {"filePath", "pageRange", "outputPath"}
          [] n = "update_pdf_metadata" -> {"filePath", "metadata", "outputPath"}
          [] n = "extract_pages"       -> {"filePath", "pages", "outputDir", "prefix"}]

DeclaredType ==
    [f \in DOMAIN NoArgs |->
        CASE f \in {"filePaths", "pages"}   -> "array"
          [] f \in {"options", "metadata"}  -> "object"
          [] OTHER                          -> "string"]

---------------------------------------------------------------------------
(* The server: requests arrive while earlier calls are suspended at an await *)

\* most tools/call requests the server accepts in one run
MaxCalls == 2

Args(rec) == Obj(rec)

\* the requests sent to the server
Requests ==
    { Request("read_pdf", Args([NoArgs EXCEPT !.filePath = Str("a.pdf")])),
      Request("read_pdf", Args([NoArgs EXCEPT !.filePath = Str("a.pdf"),
                                              !.pageRange = Str(<<"1", "-", "2">>)])),
      Request("read_pdf", Args(NoArgs)),
      Request("read_pdf", Undefined),
      Request("get_pdf_info", Args([NoArgs EXCEPT !.filePath = Str("b.pdf")])),
      Request("get_pdf_info", Args([NoArgs EXCEPT !.filePath = NumV(123)])),
      Request("create_pdf", Args([NoArgs EXCEPT !.content = Str("hello"),
                                                !.outputPath = Str("out.pdf")])),
      Request("merge_pdfs", Args([NoArgs EXCEPT !.filePaths = Arr(<<"a.pdf", "b.pdf">>),
                                                !.outputPath = Str("out.pdf")])),
      Request("merge_pdfs", Args([NoArgs EXCEPT !.filePaths = Arr(<<>>),
                                                !.outputPath = Str("out.pdf")])),
      Request("split_pdf", Args([NoArgs EXCEPT !.filePath = Str("a.pdf"),
                                               !.pageRange = Str(<<"2", ",", "1">>),
                                               !.outputPath = Str("out.pdf")])),
      Request("split_pdf", Args([NoArgs EXCEPT !.filePath = Str("a.pdf"),
                                               !.pageRange = Str(<<>>),
                                               !.outputPath = Str("out.pdf")])),
      Request("split_pdf", Args([NoArgs EXCEPT !.filePath = Str("a.pdf"),
                                               !.outputPath = Str("out.pdf")])),
      Request("update_pdf_metadata",
              Args([NoArgs EXCEPT !.filePath = Str("a.pdf"),
                                  !.metadata = Obj([NoMetadata EXCEPT !.title = Str("T")])])),
      Request("update_pdf_metadata", Args([NoArgs EXCEPT !.filePath = Str("a.pdf")])),
      Request("extract_pages", Args([NoArgs EXCEPT !.filePath = Str("a.pdf"),
                                                   !.pages = Arr(<<2, 1>>),
                                                   !.outputDir = Str("dir")])),
      Request("extract_pages", Args([NoArgs EXCEPT !.filePath = Str("a.pdf"),
                                                   !.pages = Arr(<<1, 999>>),
                                                   !.outputDir = Str("dir")])),
      Request("delete_pdf", Args([NoArgs EXCEPT !.filePath = Str("a.pdf")])) }

Init ==
    /\ InitServer
    /\ Idle
    /\ range = <<>>
    /\ totalPages = 0
    /\ pages = <<>>
    /\ rpc = "input"

\* the transport hands a request to the CallToolRequestSchema handler, which
\* runs to the first await of the engine method (or to its return)
CallTool(req) ==
    /\ Len(calls) < MaxCalls
    /\ calls' = Append(calls, Enter(NewCall(req), fs))
    /\ UNCHANGED <<fs, range, totalPages, pages, rpc, loop, ext, chat>>

Resume(c, call) ==
    /\ calls' = [calls EXCEPT ![c] = call]
    /\ UNCHANGED <<range, totalPages, pages, rpc, loop, ext, chat>>

\* readPDF and getPDFInfo after `await pdfParse(dataBuffer)`
Stat(c) ==
    LET call == calls[c]
        a    == call.arguments.v
        doc  == call.doc
        info == [pages |-> NumV(Len(doc.pages)), title |-> doc.title,
                 author |-> doc.author, subject |-> doc.subject,
                 creator |-> doc.creator, producer |-> doc.producer,
                 modificationDate |-> doc.modified,
                 fileSize |-> NumV(FileSize(fs[a.filePath.v])),
                 filePath |-> a.filePath]
        header == IF Truthy(a.pageRange)
                  THEN <<"[", "E", "x", "t", "r", "a", "c", "t", "e", "d", " ",
                         "p", "a", "g", "e", "s", " ">> \o a.pageRange.v \o <<"]">>
                  ELSE <<>>
    IN  /\ call.pc = "stat"
        /\ UNCHANGED fs
        /\ IF call.name = "get_pdf_info"
           THEN Resume(c, Finish(call, Returned(info)))
           ELSE IF Truthy(a.pageRange) /\ a.pageRange.t # "string"
           THEN Resume(c, Finish(call, Thrown("range.split is not a function")))
           ELSE Resume(c, Finish(call, Returned(
                    [text  |-> Str([header |-> header, body |-> doc.pages]),
                     pages |-> NumV(Len(doc.pages)),
                     info  |-> Obj(JsonStringify(info))])))

\* the write of `doc` at `path` that ends an engine method, which then
\* returns `value`; writeFileSync throws when the path is no string
WriteAndReturn(c, path, doc, value) ==
    IF path.t # "string"
    THEN /\ Resume(c, Finish(calls[c], Thrown(WriteError(path))))
         /\ UNCHANGED fs
    ELSE /\ fs' = writeFileSync(fs, path, doc)
         /\ Resume(c, Finish([calls[c] EXCEPT !.wrote = @ \cup {path.v}], Returned(value)))

\* createPDF after `await PDFDocument.create()`: the text drawn fits one page
CreateWrite(c) ==
    LET call == calls[c]
        a    == call.arguments.v
        o    == IF a.options.t = "object" THEN a.options.v ELSE NoMetadata
        doc  == [EmptyDocument EXCEPT
                    !.pages = <<"text">>,
                    !.title = IF Truthy(o.title) THEN o.title ELSE Undefined,
                    !.author = IF Truthy(o.author) THEN o.author ELSE Undefined,
                    !.subject = IF Truthy(o.subject) THEN o.subject ELSE Undefined,
                    !.creator = Str("PDF Utilities MCP"),
                    !.producer = Str("pdf-lib"),
                    !.modified = Str("now")]
    IN  /\ call.pc = "create"
        /\ IF a.content.t # "string"
           THEN /\ Resume(c, Finish(call, Thrown(
                        "Cannot read properties of undefined (reading 'split')")))
                /\ UNCHANGED fs
           ELSE WriteAndReturn(c, a.outputPath, doc,
                    [success |-> Bool(TRUE), path |-> a.outputPath,
                     pages |-> NumV(Len(doc.pages))])

\* a merge that saves the merged document at outputPath after every source
MergeReadStreaming(c) ==
    LET call == calls[c]
        a    == call.arguments.v
        srcs == a.filePaths.v
        src  == Str(srcs[call.i])
    IN  /\ call.pc = "mergeRead"
        /\ IF ~existsSync(fs, src)
           THEN /\ Resume(c, Finish(call, Thrown("File not found: " \o ToStr(src))))
                /\ UNCHANGED fs
           ELSE /\ fs' = writeFileSync(fs, a.outputPath,
                            [EmptyDocument EXCEPT !.pages = call.acc \o fs[src.v].pages])
                /\ Resume(c, [call EXCEPT
                        !.acc = @ \o fs[src.v].pages,
                        !.i = @ + 1,
                        !.wrote = @ \cup {a.outputPath.v},
                        !.pc = IF call.i = Len(srcs) THEN "mergeWrite" ELSE "mergeRead"])

\* a merge that puts each source's pages in front of those already copied
MergeReadPrepend(c) ==
    LET call == calls[c]
        srcs == call.arguments.v.filePaths.v
        src  == Str(srcs[call.i])
    IN  /\ call.pc = "mergeRead"
        /\ UNCHANGED fs
        /\ IF ~existsSync(fs, src)
           THEN Resume(c, Finish(call, Thrown("File not found: " \o ToStr(src))))
           ELSE Resume(c, [call EXCEPT
                    !.acc = fs[src.v].pages \o @,
                    !.i = @ + 1,
                    !.pc = IF call.i = Len(srcs) THEN "mergeWrite" ELSE "mergeRead"])

\* mergePDFs, one turn of its loop: the i-th source is checked, read, loaded
\* and its pages are copied to the merged document
MergeRead(c) ==
    LET call == calls[c]
        srcs == call.arguments.v.filePaths.v
        src  == Str(srcs[call.i])
    IN  /\ call.pc = "mergeRead"
        /\ UNCHANGED fs
        /\ IF ~existsSync(fs, src)
           THEN Resume(c, Finish(call, Thrown("File not found: " \o ToStr(src))))
           ELSE Resume(c, [call EXCEPT
                    !.acc = @ \o fs[src.v].pages,
                    !.i = @ + 1,
                    !.pc = IF call.i = Len(srcs) THEN "mergeWrite" ELSE "mergeRead"])

\* mergePDFs after `await mergedPdf.save()`
MergeWrite(c) ==
    LET call == calls[c]
        a    == call.arguments.v
        doc  == Saved([EmptyDocument EXCEPT !.pages = call.acc,
                                            !.creator = Str("PDF Utilities MCP"),
                                            !.producer = Str("pdf-lib"),
                                            !.modified = Str("now")])
    IN  /\ call.pc = "mergeWrite"
        /\ WriteAndReturn(c, a.outputPath, doc,
               [success |-> Bool(TRUE), path |-> a.outputPath,
                pages |-> NumV(Len(doc.pages))])

\* a split that saves over its source
SplitWriteInPlace(c) ==
    LET call == calls[c]
        a    == call.arguments.v
        idx  == parsePageRange(a.pageRange.v, Len(call.doc.pages))
        doc  == Saved([EmptyDocument EXCEPT !.pages = CopyPages(call.doc, idx),
                                            !.creator = Str("PDF Utilities MCP"),
                                            !.producer = Str("pdf-lib")])
    IN  /\ call.pc = "split"
        /\ IF a.pageRange.t # "string"
           THEN /\ Resume(c, Finish(call, Thrown(
                        IF a.pageRange.t = "undefined"
                        THEN "Cannot read properties of undefined (reading 'split')"
                        ELSE "range.split is not a function")))
                /\ UNCHANGED fs
           ELSE WriteAndReturn(c, a.filePath, doc,
                    [success |-> Bool(TRUE), path |-> a.outputPath,
                     pages |-> NumV(Len(doc.pages))])

\* splitPDF after `await PDFDocument.load(pdfBytes)`
SplitWrite(c) ==
    LET call == calls[c]
        a    == call.arguments.v
        idx  == parsePageRange(a.pageRange.v, Len(call.doc.pages))
        doc  == Saved([EmptyDocument EXCEPT !.pages = CopyPages(call.doc, idx),
                                            !.creator = Str("PDF Utilities MCP"),
                                            !.producer = Str("pdf-lib")])
    IN  /\ call.pc = "split"
        /\ IF a.pageRange.t # "string"
           THEN /\ Resume(c, Finish(call, Thrown(
                        IF a.pageRange.t = "undefined"
                        THEN "Cannot read properties of undefined (reading 'split')"
                        ELSE "range.split is not a function")))
                /\ UNCHANGED fs
           ELSE WriteAndReturn(c, a.outputPath, doc,
                    [success |-> Bool(TRUE), path |-> a.outputPath,
                     pages |-> NumV(Len(doc.pages))])

\* a write that replaces the four fields by the request's, absent ones cleared
UpdateWriteReplaceAll(c) ==
    LET call == calls[c]
        a    == call.arguments.v
        m    == a.metadata.v
        doc  == [call.doc EXCEPT
                    !.title = m.title,
                    !.author = m.author,
                    !.subject = m.subject,
                    !.keywords = m.keywords,
                    !.modified = Str("now")]
        savePath == IF Truthy(a.outputPath) THEN a.outputPath ELSE a.filePath
    IN  /\ call.pc = "update"
        /\ IF a.metadata.t # "object"
           THEN /\ Resume(c, Finish(call, Thrown(
                        "Cannot read properties of undefined (reading 'title')")))
                /\ UNCHANGED fs
           ELSE WriteAndReturn(c, savePath, doc,
                    [success |-> Bool(TRUE), path |-> savePath])

\* updatePDFMetadata after `await PDFDocument.load(pdfBytes)`
UpdateWrite(c) ==
    LET call == calls[c]
        a    == call.arguments.v
        m    == a.metadata.v
        doc  == [call.doc EXCEPT
                    !.title = IF Truthy(m.title) THEN m.title ELSE @,
                    !.author = IF Truthy(m.author) THEN m.author ELSE @,
                    !.subject = IF Truthy(m.subject) THEN m.subject ELSE @,
                    !.keywords = IF Truthy(m.keywords) THEN m.keywords ELSE @,
                    !.modified = Str("now")]
        savePath == IF Truthy(a.outputPath) THEN a.outputPath ELSE a.filePath
    IN  /\ call.pc = "update"
        /\ IF a.metadata.t # "object"
           THEN /\ Resume(c, Finish(call, Thrown(
                        "Cannot read properties of undefined (reading 'title')")))
                /\ UNCHANGED fs
           ELSE WriteAndReturn(c, savePath, doc,
                    [success |-> Bool(TRUE), path |-> savePath])

\* extractPages pushing a path only the first time it writes it
ExtractWriteDistinct(c) ==
    LET call == calls[c]
        a    == call.arguments.v
        n    == a.pages.v[call.i]
        path == Str(ToStr(a.outputDir) \o "/"
                    \o (IF a.prefix.t = "undefined" THEN "page" ELSE ToStr(a.prefix))
                    \o "_" \o ToString(n) \o ".pdf")
        doc  == Saved([EmptyDocument EXCEPT !.pages = CopyPages(call.doc, <<n - 1>>)])
    IN  /\ call.pc = "extractWrite"
        /\ fs' = writeFileSync(fs, path, doc)
        /\ Resume(c, ExtractLoop([call EXCEPT
                                      !.wrote = @ \cup {path.v},
                                      !.files = IF path.v \in call.wrote
                                                THEN @ ELSE Append(@, path)],
                                 call.i + 1))

\* the output named by the page's 0-based index
ExtractPathZeroBased(a, pageNum) ==
    Str(ToStr(a.outputDir) \o "/"
        \o (IF a.prefix.t = "undefined" THEN "page" ELSE ToStr(a.prefix))
        \o "_" \o ToString(pageNum - 1) \o ".pdf")

\* `${outputDir}/${prefix}_${pageNum}.pdf`, prefix defaulting to 'page'
ExtractPath(a, pageNum) ==
    Str(ToStr(a.outputDir) \o "/"
        \o (IF a.prefix.t = "undefined" THEN "page" ELSE ToStr(a.prefix))
        \o "_" \o ToString(pageNum) \o ".pdf")

\* extractPages, after the awaits that build the i-th single-page document:
\* the file is written and the loop goes on to the next number
ExtractWrite(c) ==
    LET call == calls[c]
        a    == call.arguments.v
        n    == a.pages.v[call.i]
        path == ExtractPath(a, n)
        doc  == Saved([EmptyDocument EXCEPT !.pages = CopyPages(call.doc, <<n - 1>>)])
    IN  /\ call.pc = "extractWrite"
        /\ fs' = writeFileSync(fs, path, doc)
        /\ Resume(c, ExtractLoop([call EXCEPT !.wrote = @ \cup {path.v},
                                              !.files = Append(@, path)],
                                 call.i + 1))

CallIds == 1..Len(calls)

Next ==
    \/ \E req \in Requests : CallTool(req)
    \/ \E c \in CallIds : Stat(c)
    \/ \E c \in CallIds : CreateWrite(c)
    \/ \E c \in CallIds : MergeRead(c)
    \/ \E c \in CallIds : MergeWrite(c)
    \/ \E c \in CallIds : SplitWrite(c)
    \/ \E c \in CallIds : UpdateWrite(c)
    \/ \E c \in CallIds : ExtractWrite(c)

Spec == Init /\ [][Next]_vars

---------------------------------------------------------------------------
(* The server under merge_pdfs, split_pdf and extract_pages requests: the   *)
(* sources a.pdf and b.pdf merged in every order, a source listed twice, a  *)
(* missing source at either position, an output path that exists, and       *)
(* splits of the merged document.                                           *)

Merge(filePaths, outputPath) ==
    Request("merge_pdfs", Args([NoArgs EXCEPT !.filePaths = Arr(filePaths),
                                              !.outputPath = Str(outputPath)]))

SplitReq(filePath, pageRange, outputPath) ==
    Request("split_pdf", Args([NoArgs EXCEPT !.filePath = Str(filePath),
                                             !.pageRange = Str(pageRange),
                                             !.outputPath = Str(outputPath)]))

AssembleRequests ==
    { Merge(<<"a.pdf", "b.pdf">>, "m.pdf"),
      Merge(<<"b.pdf", "a.pdf">>, "m.pdf"),
      Merge(<<"a.pdf", "a.pdf">>, "m.pdf"),
      Merge(<<"a.pdf", "missing.pdf">>, "b.pdf"),
      Merge(<<"missing.pdf", "a.pdf">>, "m.pdf"),
      Merge(<<>>, "b.pdf"),
      SplitReq("m.pdf", <<"1", "-", "2">>, "front.pdf"),
      SplitReq("m.pdf", <<"1", "-", "1">>, "front.pdf"),
      SplitReq("a.pdf", <<"2", ",", "2", ",", "1">>, "front.pdf"),
      SplitReq("missing.pdf", <<"1">>, "b.pdf"),
      Request("extract_pages", Args([NoArgs EXCEPT !.filePath = Str("a.pdf"),
                                                   !.pages = Arr(<<2, 1>>),
                                                   !.outputDir = Str("dir")])),
      Request("extract_pages", Args([NoArgs EXCEPT !.filePath = Str("a.pdf"),
                                                   !.pages = Arr(<<1, 2, 1>>),
                                                   !.outputDir = Str("out"),
                                                   !.prefix = Str("p")])) }

NextAssemble ==
    \/ \E req \in AssembleRequests : CallTool(req)
    \/ \E c \in CallIds : MergeRead(c)
    \/ \E c \in CallIds : MergeWrite(c)
    \/ \E c \in CallIds : SplitWrite(c)
    \/ \E c \in CallIds : ExtractWrite(c)

SpecAssemble == Init /\ [][NextAssemble]_vars

---------------------------------------------------------------------------
(* The server under update_pdf_metadata requests: fields set, left out and  *)
(* set to the empty string, written in place and to an output path.         *)

Update(filePath, metadata, outputPath) ==
    Request("update_pdf_metadata",
            Args([NoArgs EXCEPT !.filePath = Str(filePath),
                                !.metadata = Obj(metadata),
                                !.outputPath = outputPath]))

MetadataRequests ==
    { Update("a.pdf", [NoMetadata EXCEPT !.title = Str("T")], Undefined),
      Update("a.pdf", NoMetadata, Undefined),
      Update("a.pdf", NoMetadata, Str("copy.pdf")),
      Update("a.pdf", [NoMetadata EXCEPT !.title = Str("")], Undefined),
      Update("a.pdf", [NoMetadata EXCEPT !.author = Str("Bob")], Undefined),
      Update("a.pdf", [NoMetadata EXCEPT !.author = Str("Bob"), !.keywords = Str("k")],
             Str("copy.pdf")),
      Update("a.pdf", [NoMetadata EXCEPT !.subject = Str("S")], Str("")),
      Update("b.pdf", NoMetadata, Undefined),
      Update("copy.pdf", NoMetadata, Undefined) }

NextMetadata ==
    \/ \E req \in MetadataRequests : CallTool(req)
    \/ \E c \in CallIds : UpdateWrite(c)

SpecMetadata == Init /\ [][NextMetadata]_vars

---------------------------------------------------------------------------
(* The server under the requests of Spec and requests naming no declared    *)
(* operation, with an argument record, an empty one, and none.              *)

DispatchRequests ==
    Requests \cup { Request("delete_pdf", Args(NoArgs)),
                    Request("delete_pdf", Undefined),
                    Request("merge", Args([NoArgs EXCEPT
                                !.filePaths = Arr(<<"a.pdf", "b.pdf">>),
                                !.outputPath = Str("out.pdf")])) }

NextDispatch ==
    \/ \E req \in DispatchRequests : CallTool(req)
    \/ \E c \in CallIds : Stat(c)
    \/ \E c \in CallIds : CreateWrite(c)
    \/ \E c \in CallIds : MergeRead(c)
    \/ \E c \in CallIds : MergeWrite(c)
    \/ \E c \in CallIds : SplitWrite(c)
    \/ \E c \in CallIds : UpdateWrite(c)
    \/ \E c \in CallIds : ExtractWrite(c)

SpecDispatch == Init /\ [][NextDispatch]_vars

---------------------------------------------------------------------------
(* The server under read_pdf and get_pdf_info requests: a document read     *)
(* whole, and read with page ranges that select some of its pages.          *)

Read(filePath, pageRange) ==
    Request("read_pdf", Args([NoArgs EXCEPT !.filePath = Str(filePath),
                                            !.pageRange = pageRange]))

ReadRequests ==
    { Read("a.pdf", Undefined),
      Read("a.pdf", Str(<<"1">>)),
      Read("a.pdf", Str(<<"2", ",", "1">>)),
      Read("a.pdf", Str(<<"1", "-", "2">>)),
      Read("a.pdf", Str(<<>>)),
      Read("b.pdf", Undefined),
      Read("b.pdf", Str(<<"1">>)),
      Read("missing.pdf", Str(<<"1">>)),
      Request("get_pdf_info", Args([NoArgs EXCEPT !.filePath = Str("a.pdf")])) }

NextRead ==
    \/ \E req \in ReadRequests : CallTool(req)
    \/ \E c \in CallIds : Stat(c)

SpecRead == Init /\ [][NextRead]_vars

---------------------------------------------------------------------------
(* The server under the five tools that read a source and write elsewhere, *)
(* among them calls whose output path is one of their sources              *)

Extract(filePath, nums, outputDir) ==
    Request("extract_pages", Args([NoArgs EXCEPT !.filePath = Str(filePath),
                                                 !.pages = Arr(nums),
                                                 !.outputDir = Str(outputDir)]))

FrameRequests ==
    { Read("a.pdf", Undefined),
      Read("missing.pdf", Undefined),
      Request("get_pdf_info", Args([NoArgs EXCEPT !.filePath = Str("b.pdf")])),
      Merge(<<"a.pdf", "b.pdf">>, "out.pdf"),
      Merge(<<"a.pdf", "b.pdf">>, "a.pdf"),
      Merge(<<"b.pdf", "missing.pdf">>, "out.pdf"),
      SplitReq("a.pdf", <<"2">>, "out.pdf"),
      SplitReq("a.pdf", <<"2">>, "a.pdf"),
      SplitReq("a.pdf", <<"9">>, "b.pdf"),
      Extract("a.pdf", <<2, 1>>, "dir"),
      Extract("a.pdf", <<1, 9>>, "dir") }

NextFrame ==
    \/ \E req \in FrameRequests : CallTool(req)
    \/ \E c \in CallIds : Stat(c)
    \/ \E c \in CallIds : MergeRead(c)
    \/ \E c \in CallIds : MergeWrite(c)
    \/ \E c \in CallIds : SplitWrite(c)
    \/ \E c \in CallIds : ExtractWrite(c)

SpecFrame == Init /\ [][NextFrame]_vars

---------------------------------------------------------------------------
(* The extension: activate() and the three commands it registers.  The     *)
(* lines activate() writes to the output channel are left out.             *)

\* most command invocations in one run
MaxCommands == 2

CommandIds == {"pdfUtilities.configure", "pdfUtilities.restart", "pdfUtilities.viewDocs"}

\* effects on the user interface
Warning(text, items) ==
    [type |-> "showWarningMessage", text |-> text, items |-> items, answered |-> FALSE]

Information(text, items) ==
    [type |-> "showInformationMessage", text |-> text, items |-> items, answered |-> FALSE]

ReloadWindow ==
    [type |-> "workbench.action.reloadWindow", text |-> "", items |-> {}, answered |-> FALSE]

OpenExternal ==
    [type |-> "openExternal",
     text |-> "https://github.com/GleidsonFerSanP/pdf-utilities-mcp#readme",
     items |-> {}, answered |-> FALSE]

\* the registration without its try/catch
RegisterMcpUncaught(env) ==
    IF env.mcpDisabled THEN [available |-> FALSE, threw |-> FALSE]
    ELSE [available |-> env.mcpApi = "present", threw |-> env.mcpApi = "throws"]

\* activate(): the block that registers the MCP server definition provider,
\* skipped when disabled, and with every exception caught
RegisterMcp(env) ==
    IF env.mcpDisabled THEN [available |-> FALSE, threw |-> FALSE]
    ELSE [available |-> env.mcpApi = "present", threw |-> FALSE]

\* registerChatParticipant(context): false when the API is absent or when
\* creating the participant throws (caught)
registerChatParticipant(env) == env.chatApi = "present"

ExtUnchanged == UNCHANGED <<range, totalPages, pages, rpc, fs, calls, loop, chat>>

\* activate(context)
Activate ==
    LET env      == ext.env
        mcp      == RegisterMcp(env)
        chatOk   == registerChatParticipant(env)
        welcome  == ~ext.hasShownWelcome /\ (mcp.available \/ chatOk)
        features == IF mcp.available /\ chatOk THEN "MCP tools, @pdf chat"
                    ELSE IF mcp.available THEN "MCP tools" ELSE "@pdf chat"
    IN  /\ ext.activated = "no"
        /\ ext' = IF mcp.threw
                  THEN [ext EXCEPT !.activated = "threw",
                                   !.subscriptions = {"outputChannel"}]
                  ELSE [ext EXCEPT
                          !.activated = "yes",
                          !.mcpAvailable = mcp.available,
                          !.chatParticipantAvailable = chatOk,
                          !.commands = CommandIds,
                          !.subscriptions =
                              {"outputChannel"} \cup CommandIds
                                \cup (IF mcp.available THEN {"mcpProvider"} ELSE {})
                                \cup (IF chatOk THEN {"participant"} ELSE {}),
                          !.hasShownWelcome = @ \/ welcome,
                          !.ui = IF welcome
                                 THEN <<Information(
                                          "PDF Utilities is ready! Features: " \o features
                                             \o ". Use @pdf in chat to analyze PDFs.",
                                          {"View Documentation", "Got it"})>>
                                 ELSE <<>>]
        /\ ExtUnchanged

\* the user or another extension runs a registered command
Invoke(id, effects) ==
    /\ id \in ext.commands
    /\ Len(ext.invoked) < MaxCommands
    /\ ext' = [ext EXCEPT !.invoked = Append(@, id), !.ui = @ \o effects]
    /\ ExtUnchanged

\* the pdfUtilities.configure command
Configure ==
    Invoke("pdfUtilities.configure",
           IF ~ext.mcpAvailable
           THEN <<Warning("MCP is not available in your environment.",
                          {"View Documentation"})>>
           ELSE <<Information("PDF Utilities configured successfully! Tools are available in GitHub Copilot Chat.", {})>>)

\* the pdfUtilities.restart command
Restart ==
    Invoke("pdfUtilities.restart",
           IF ~ext.mcpAvailable
           THEN <<Warning("MCP is not available in your environment.", {})>>
           ELSE <<Information("Restarting PDF Utilities server... Please reload VS Code.", {}),
                  ReloadWindow>>)

\* the pdfUtilities.viewDocs command
ViewDocs == Invoke("pdfUtilities.viewDocs", <<OpenExternal>>)

\* the `.then(selection => ...)` of a message offering 'View Documentation',
\* when the user picks it: executeCommand('pdfUtilities.viewDocs')
PickViewDocumentation ==
    \E k \in 1..Len(ext.ui) :
        /\ "View Documentation" \in ext.ui[k].items
        /\ ~ext.ui[k].answered
        /\ "pdfUtilities.viewDocs" \in ext.commands
        /\ ext' = [ext EXCEPT !.ui = Append([@ EXCEPT ![k].answered = TRUE], OpenExternal)]
        /\ ExtUnchanged

InitExtension ==
    /\ ext \in {NotActivated(env) : env \in Environments}
    /\ InitServer
    /\ chat = NoChat
    /\ loop = NoLoop
    /\ range = <<>>
    /\ totalPages = 0
    /\ pages = <<>>
    /\ rpc = "input"

NextExtension ==
    \/ Activate
    \/ Configure
    \/ Restart
    \/ ViewDocs
    \/ PickViewDocumentation

SpecExtension == InitExtension /\ [][NextExtension]_vars

---------------------------------------------------------------------------
(* The @pdf chat participant (extension.ts): one request handled           *)

MaxRefs == 2

\* String.prototype.toLowerCase on the letters the attached paths are spelt with
LowerChar(ch) ==
    CASE ch = "P" -> "p" [] ch = "D" -> "d" [] ch = "F" -> "f" [] ch = "B" -> "b"
      [] OTHER -> ch

ToLowerCase(s) == [k \in 1..Len(s) |-> LowerChar(s[k])]

\* String.prototype.endsWith
EndsWith(s, suffix) ==
    Len(s) >= Len(suffix) /\ SubSeq(s, Len(s) - Len(suffix) + 1, Len(s)) = suffix

\* path.basename: what follows the last separator
Basename(p) == LET pieces == Split(p, "/") IN pieces[Len(pieces)]

\* an attachment of the request: ref.value is a Uri, a Location (an object
\* with a uri) or something else; `reads` tells how far reading its file gets:
\* through workspace.fs, only through the readFileSync fallback, or not at all
Ref(value, fsPath, reads, numPages) ==
    [value |-> value, fsPath |-> fsPath, reads |-> reads, numPages |-> numPages]

Attachments ==
    { Ref("uri", <<"d", "/", "a", ".", "p", "d", "f">>, "workspace", 2),
      Ref("uri", <<"B", ".", "P", "D", "F">>, "fallback", 1),
      Ref("uri", <<"b", "a", "d", ".", "p", "d", "f">>, "fails", 0),
      Ref("location", <<"c", ".", "p", "d", "f">>, "workspace", 1),
      Ref("uri", <<"n", ".", "t", "x", "t">>, "workspace", 0),
      Ref("uri", <<"p", "d", "f">>, "workspace", 1),
      Ref("string", <<"d", "/", "a", ".", "p", "d", "f">>, "workspace", 2) }

References == UNION {[1..n -> Attachments] : n \in 0..MaxRefs}

Prompts == { <<>>, <<" ">>, <<"h", "i">> }

\* what vscode.lm.selectChatModels answers: a gpt-4o model, only another
\* copilot model, no model, or a rejection
ModelChoices == {"gpt-4o", "other", "none", "throws"}

\* how model.sendRequest ends: fragments streamed, a rejection, a cancellation
SendOutcomes == {"streams", "throws", "cancelled"}

Markdown(text, file) == [part |-> "markdown", text |-> text, file |-> file]

Progress(file) == [part |-> "progress", text |-> "Reading", file |-> file]

\* the handler called with a request, before its first statement
ChatRequest(refs, prompt, models, outcome) ==
    [pc |-> "request", references |-> refs, prompt |-> prompt, models |-> models,
     outcome |-> outcome, pdfUris |-> <<>>, k |-> 0, pdfContents |-> <<>>,
     totalPages |-> 0, response |-> <<>>, sent |-> <<>>]

ChatUnchanged == UNCHANGED <<range, totalPages, pages, rpc, fs, calls, loop, ext>>

\* the test each reference passes to be pushed on pdfUris
IsPdfUri(ref) ==
    /\ ref.value \in {"uri", "location"}
    /\ EndsWith(ToLowerCase(ref.fsPath), <<".", "p", "d", "f">>)

\* the handler up to its first await: the references are collected, and with
\* no PDF among them the guidance is written and the handler returns
ChatCollect ==
    /\ chat.pc = "request"
    /\ LET pdfUris == SelectSeq(chat.references, IsPdfUri)
       IN  chat' = IF pdfUris = <<>>
                   THEN [chat EXCEPT !.pc = "done",
                                     !.response = Append(@, Markdown("No PDF file detected", <<>>))]
                   ELSE [chat EXCEPT !.pc = "reading", !.pdfUris = pdfUris, !.k = 1]
    /\ ChatUnchanged

\* a loop that goes on to the model whatever was extracted
AfterReadingUnchecked(c) ==
    IF c.k <= Len(c.pdfUris) THEN c ELSE [c EXCEPT !.pc = "select"]

\* after the loop: with nothing extracted the handler says so and returns,
\* otherwise the messages are built and the gpt-4o model is asked for
AfterReading(c) ==
    IF c.k <= Len(c.pdfUris) THEN c
    ELSE IF c.pdfContents = <<>>
    THEN [c EXCEPT !.pc = "done",
                   !.response = Append(@, Markdown("Could not extract text from any", <<>>))]
    ELSE [c EXCEPT !.pc = "select"]

\* one pass of `for (const uri of pdfUris)`: progress, the read through
\* workspace.fs with its fallback, and the catch that reports a failure
ChatRead ==
    /\ chat.pc = "reading"
    /\ LET uri      == chat.pdfUris[chat.k]
           fileName == Basename(uri.fsPath)
           shown    == Append(chat.response, Progress(fileName))
       IN  chat' = AfterReading(
                     IF uri.reads \in {"workspace", "fallback"}
                     THEN [chat EXCEPT
                              !.response = shown,
                              !.totalPages = @ + uri.numPages,
                              !.pdfContents = Append(@, [file |-> fileName,
                                                         pages |-> uri.numPages]),
                              !.k = @ + 1]
                     ELSE [chat EXCEPT
                              !.response = Append(shown, Markdown("Could not read", fileName)),
                              !.k = @ + 1])
    /\ ChatUnchanged

\* request.prompt?.trim() || 'Analyze and summarize this PDF document.'
UserQuestion(prompt) ==
    IF Trim(prompt) = <<>> THEN <<"A", "n", "a", "l", "y", "z", "e">> ELSE Trim(prompt)

\* model.sendRequest(messages, {}, token) with the message built from the
\* extracted contents
SendRequest(c, model) ==
    [c EXCEPT !.pc = "sent",
              !.sent = Append(@, [model |-> model, files |-> Len(c.pdfUris),
                                  totalPages |-> c.totalPages,
                                  content |-> c.pdfContents,
                                  question |-> UserQuestion(c.prompt)])]

LanguageModelError(c) ==
    [c EXCEPT !.pc = "done",
              !.response = Append(@, Markdown("Error communicating with the language model", <<>>))]

\* selectChatModels({vendor: 'copilot', family: 'gpt-4o'}) settles
ChatSelect ==
    /\ chat.pc = "select"
    /\ chat' = CASE chat.models = "gpt-4o" -> SendRequest(chat, "gpt-4o")
                 [] chat.models = "throws" -> LanguageModelError(chat)
                 [] OTHER                  -> [chat EXCEPT !.pc = "fallback"]
    /\ ChatUnchanged

\* selectChatModels({vendor: 'copilot'}) settles
ChatFallback ==
    /\ chat.pc = "fallback"
    /\ chat' = IF chat.models = "other"
               THEN SendRequest(chat, "other")
               ELSE [chat EXCEPT !.pc = "done",
                                 !.response = Append(@, Markdown("No language model available", <<>>))]
    /\ ChatUnchanged

\* model.sendRequest settles and the fragments are streamed
ChatStream ==
    /\ chat.pc = "sent"
    /\ chat' = CASE chat.outcome = "streams" ->
                      [chat EXCEPT !.pc = "done",
                                   !.response = Append(@, Markdown("fragment", <<>>))]
                 [] chat.outcome = "throws" -> LanguageModelError(chat)
                 [] OTHER -> [chat EXCEPT !.pc = "done"]
    /\ ChatUnchanged

InitChat ==
    /\ chat \in {ChatRequest(refs, prompt, models, outcome) :
                    refs \in References, prompt \in Prompts,
                    models \in ModelChoices, outcome \in SendOutcomes}
    /\ InitServer
    /\ ext = NoExtension
    /\ loop = NoLoop
    /\ range = <<>>
    /\ totalPages = 0
    /\ pages = <<>>
    /\ rpc = "input"

NextChat ==
    \/ ChatCollect
    \/ ChatRead
    \/ ChatSelect
    \/ ChatFallback
    \/ ChatStream

SpecChat == InitChat /\ [][NextChat]_vars

---------------------------------------------------------------------------
(* parsePageRange run alone on every bounded expression *)

InitResolve ==
    /\ range \in Expressions
    /\ totalPages \in TotalPagesChoices
    /\ pages = <<>>
    /\ rpc = "input"
    /\ InitServer
    /\ Idle

Resolve ==
    /\ rpc = "input"
    /\ pages' = parsePageRange(range, totalPages)
    /\ rpc' = "returned"
    /\ UNCHANGED <<range, totalPages, fs, calls, loop, ext, chat>>

NextResolve == Resolve

SpecResolve == InitResolve /\ [][NextResolve]_vars

\* parsePageRange run against every page count, that of an empty document included
AnyTotalPages == TotalPagesChoices \cup {0}

InitResolveAny ==
    /\ range \in Expressions
    /\ totalPages \in AnyTotalPages
    /\ pages = <<>>
    /\ rpc = "input"
    /\ InitServer
    /\ Idle

SpecResolveAny == InitResolveAny /\ [][NextResolve]_vars

---------------------------------------------------------------------------
(* parsePageRange statement by statement, on JavaScript numbers            *)

\* A JavaScript number is an IEEE-754 double: every integer from 0 to 2^53 is
\* a double, 2^53 + 1 is not, and the sum 2^53 + 1 rounds to 2^53.  A number is
\* kept as hi * Radix + lo, which holds every integer up to 2^53.
Radix == 2^27

Wide(hi, lo) == [nan |-> FALSE, hi |-> hi, lo |-> lo]

WideNaN == [nan |-> TRUE, hi |-> 0, lo |-> 0]

\* 2^53, the first double whose successor is not a double
TwoTo53 == Wide(2^26, 0)

\* a page count as a JavaScript number
WideOf(n) == Wide(n \div Radix, n % Radix)

\* a <= b and a >= b on JavaScript numbers: false when either is NaN
WideLeq(a, b) ==
    ~a.nan /\ ~b.nan /\ (a.hi < b.hi \/ (a.hi = b.hi /\ a.lo <= b.lo))

WideGeq(a, b) == WideLeq(b, a)

\* i + 1 in exact arithmetic
Successor(n) ==
    IF n.nan THEN n
    ELSE IF n.lo + 1 = Radix THEN Wide(n.hi + 1, 0)
    ELSE Wide(n.hi, n.lo + 1)

\* i++ : i + 1 rounded to the nearest double, which at 2^53 is 2^53 again
Increment(n) == IF n = TwoTo53 THEN n ELSE Successor(n)

\* 10 * n + d, the value after one more decimal digit
ShiftIn(n, d) == Wide(10 * n.hi + (10 * n.lo + d) \div Radix, (10 * n.lo + d) % Radix)

\* the value of a run of decimal digits read from the left, `n` read so far
RECURSIVE WideDigitsFrom(_, _)
WideDigitsFrom(n, ds) ==
    IF ds = <<>> THEN n
    ELSE WideDigitsFrom(ShiftIn(n, DigitValue(Head(ds))), Tail(ds))

WideDigits(ds) == WideDigitsFrom(Wide(0, 0), ds)

\* parseInt on a piece of a hyphen-split part or on a part without a hyphen:
\* no '-' is left in it, so the only sign it can carry is '+'
WideParseInt(str) ==
    LET s    == TrimStart(str)
        body == IF s # <<>> /\ Head(s) = "+" THEN Tail(s) ELSE s
        ds   == DigitPrefix(body)
    IN  IF ds = <<>> THEN WideNaN ELSE WideDigits(ds)

\* the expressions the loop is run on: ascending, descending and unparsable
\* ends, several hyphens, a list, and ends at the top of the integer range of
\* a double (none above 2^53, where parseInt would round)
LoopExpressions ==
    { <<"1", "-", "3">>,
      <<"2">>,
      <<"3", "-", "1">>,
      <<"a", "-", "3">>,
      <<"2", "-", "a">>,
      <<"-">>,
      <<"1", "-", "3", "-", "5">>,
      <<"2", ",", "1", "-", "2">>,
      <<" ", "2", " ", "-", " ", "3", " ">>,
      <<"5", "a", "b", "c">>,
      <<"+", "2", "-", "3">>,
      <<"0", "-", "1">>,
      <<"9", "0", "0", "7", "1", "9", "9", "2", "5", "4", "7", "4", "0", "9", "8", "9", "-", "9", "0", "0", "7", "1", "9", "9", "2", "5", "4", "7", "4", "0", "9", "9", "1">>,
      <<"9", "0", "0", "7", "1", "9", "9", "2", "5", "4", "7", "4", "0", "9", "9", "0", "-", "9", "0", "0", "7", "1", "9", "9", "2", "5", "4", "7", "4", "0", "9", "9", "2">>,
      <<"9", "0", "0", "7", "1", "9", "9", "2", "5", "4", "7", "4", "0", "9", "9", "2", "-", "9", "0", "0", "7", "1", "9", "9", "2", "5", "4", "7", "4", "0", "9", "9", "2">>,
      <<"2", ",", "9", "0", "0", "7", "1", "9", "9", "2", "5", "4", "7", "4", "0", "9", "9", "1", "-", "9", "0", "0", "7", "1", "9", "9", "2", "5", "4", "7", "4", "0", "9", "9", "2", ",", "1">> }

LoopTotalPages == {0, 3}

\* parsePageRange at line 223, `parts` split and nothing pushed yet
LoopStart(r, total) ==
    [pc |-> "parts", range |-> r, totalPages |-> total, parts |-> Split(r, ","),
     i |-> WideNaN, end |-> WideNaN, pages |-> <<>>]

LoopUnchanged == UNCHANGED <<range, totalPages, pages, rpc, fs, calls, ext, chat>>

\* for (const part of parts): the next part; a part with a hyphen enters the
\* inner loop with i = start, any other part is a single page
ForOfPart ==
    /\ loop.pc = "parts"
    /\ loop.parts # <<>>
    /\ LET part == Head(loop.parts)
       IN  IF Includes(part, "-")
           THEN LET pieces == Split(part, "-")
                    nums   == [k \in 1..Len(pieces) |-> WideParseInt(Trim(pieces[k]))]
                IN  loop' = [loop EXCEPT !.parts = Tail(@), !.i = nums[1],
                                         !.end = nums[2], !.pc = "test"]
           ELSE LET pageNum == WideParseInt(Trim(part))
                IN  loop' = [loop EXCEPT
                        !.parts = Tail(@),
                        !.pages = IF /\ WideGeq(pageNum, WideOf(1))
                                     /\ WideLeq(pageNum, WideOf(loop.totalPages))
                                  THEN Append(@, pageNum.lo - 1)
                                  ELSE @]
    /\ LoopUnchanged

\* the test `i <= end` of the inner loop
LoopTest ==
    /\ loop.pc = "test"
    /\ loop' = [loop EXCEPT !.pc = IF WideLeq(loop.i, loop.end) THEN "body" ELSE "parts"]
    /\ LoopUnchanged

\* if (i >= 1 && i <= totalPages) pages.push(i - 1)
LoopBody ==
    /\ loop.pc = "body"
    /\ loop' = [loop EXCEPT
            !.pc = "incr",
            !.pages = IF /\ WideGeq(loop.i, WideOf(1))
                         /\ WideLeq(loop.i, WideOf(loop.totalPages))
                      THEN Append(@, loop.i.lo - 1)
                      ELSE @]
    /\ LoopUnchanged

\* i++
LoopIncrement ==
    /\ loop.pc = "incr"
    /\ loop' = [loop EXCEPT !.i = Increment(@), !.pc = "test"]
    /\ LoopUnchanged

\* return pages
LoopReturn ==
    /\ loop.pc = "parts"
    /\ loop.parts = <<>>
    /\ loop' = [loop EXCEPT !.pc = "returned"]
    /\ LoopUnchanged

InitLoop ==
    /\ loop \in {LoopStart(r, total) : r \in LoopExpressions, total \in LoopTotalPages}
    /\ InitServer
    /\ ext = NoExtension
    /\ chat = NoChat
    /\ range = <<>>
    /\ totalPages = 0
    /\ pages = <<>>
    /\ rpc = "input"

NextLoop ==
    \/ ForOfPart
    \/ LoopTest
    \/ LoopBody
    \/ LoopIncrement
    \/ LoopReturn

SpecLoop == InitLoop /\ [][NextLoop]_vars

---------------------------------------------------------------------------
(* The page-range grammar as documented: a comma-separated list of tokens,  *)
(* each a decimal integer or a hyphen-joined pair, white space around the   *)
(* tokens and around the hyphen ignored.                                    *)

Tokens(expr) == Split(expr, ",")

IsRangeToken(tok) == Includes(tok, "-")

IsDecimal(s) == s # <<>> /\ \A k \in 1..Len(s) : s[k] \in DigitChars

RECURSIVE Pow10(_)
Pow10(n) == IF n = 0 THEN 1 ELSE 10 * Pow10(n - 1)

RECURSIVE DecimalValue(_)
DecimalValue(s) ==
    IF s = <<>> THEN 0
    ELSE DigitValue(Head(s)) * Pow10(Len(s) - 1) + DecimalValue(Tail(s))

InBounds(s, total) == IsDecimal(s) /\ DecimalValue(s) >= 1 /\ DecimalValue(s) <= total

SinglePageOk(tok, total) == InBounds(Trim(tok), total)

RangeOk(tok, total) ==
    LET ends == Split(tok, "-")
    IN  /\ Len(ends) = 2
        /\ InBounds(Trim(ends[1]), total)
        /\ InBounds(Trim(ends[2]), total)
        /\ DecimalValue(Trim(ends[1])) <= DecimalValue(Trim(ends[2]))

TokenOk(tok, total) ==
    IF IsRangeToken(tok) THEN RangeOk(tok, total) ELSE SinglePageOk(tok, total)

ValidExpression(expr, total) ==
    \A k \in 1..Len(Tokens(expr)) : TokenOk(Tokens(expr)[k], total)

\* a token's expansion: a single page as itself, a range a-b as a, a+1, ..., b
Expansion(tok) ==
    IF IsRangeToken(tok)
    THEN LET a == DecimalValue(Trim(Split(tok, "-")[1]))
             b == DecimalValue(Trim(Split(tok, "-")[2]))
         IN  [k \in 1..(b - a + 1) |-> a + k - 1]
    ELSE <<DecimalValue(Trim(tok))>>

RECURSIVE ConcatExpansions(_)
ConcatExpansions(toks) ==
    IF toks = <<>> THEN <<>>
    ELSE Expansion(Head(toks)) \o ConcatExpansions(Tail(toks))

\* the 1-based page numbers the returned 0-based indices denote
DenotedPages == [k \in 1..Len(pages) |-> pages[k] + 1]

\* C1: whenever the expression holds a single-page token that is not an
\* integer in [1, totalPages], resolve fails with InvalidPageRange instead of
\* returning a sequence.
C1_BadSingleTokenFails ==
    (/\ rpc # "input"
     /\ \E k \in 1..Len(Tokens(range)) :
            /\ ~IsRangeToken(Tokens(range)[k])
            /\ ~SinglePageOk(Tokens(range)[k], totalPages))
    => rpc = "InvalidPageRange"

\* a token "a-b" with both ends decimal integers
IsPair(tok) ==
    /\ Len(Split(tok, "-")) = 2
    /\ IsDecimal(Trim(Split(tok, "-")[1]))
    /\ IsDecimal(Trim(Split(tok, "-")[2]))

\* C2: whenever the expression holds a range token a-b that does not have
\* a and b in [1, totalPages] and a <= b, resolve fails with InvalidPageRange
\* rather than returning a truncated or empty result.
C2_BadRangeTokenFails ==
    (/\ rpc # "input"
     /\ \E k \in 1..Len(Tokens(range)) :
            /\ IsPair(Tokens(range)[k])
            /\ ~RangeOk(Tokens(range)[k], totalPages))
    => rpc = "InvalidPageRange"

\* C4: for every valid expression resolve returns a non-empty sequence whose
\* every element denotes a page in [1, totalPages]; for "3-9" with 20 pages the
\* result denotes exactly pages 3, 4, 5, 6, 7, 8, 9.
C4_ValidResolvesInBounds ==
    (rpc # "input" /\ ValidExpression(range, totalPages))
    => /\ rpc = "returned"
       /\ pages # <<>>
       /\ \A k \in 1..Len(pages) : DenotedPages[k] \in 1..totalPages
       /\ (range = <<"3", "-", "9">> /\ totalPages = 20)
             => DenotedPages = <<3, 4, 5, 6, 7, 8, 9>>

C4_Witness ==
    /\ rpc = "returned"
    /\ range = <<"3", "-", "9">>
    /\ totalPages = 20
    /\ pages = <<2, 3, 4, 5, 6, 7, 8>>

\* C5: for every valid expression the output is the concatenation, in token
\* order, of each token's expansion; repeated pages are kept once per
\* occurrence and nothing is sorted.
C5_OutputIsConcatenation ==
    (rpc # "input" /\ ValidExpression(range, totalPages))
    => /\ rpc = "returned"
       /\ DenotedPages = ConcatExpansions(Tokens(range))

C5_Witness ==
    /\ rpc = "returned"
    /\ range = <<"3", ",", "2", "-", "3">>
    /\ totalPages = 3
    /\ ValidExpression(range, totalPages)
    /\ pages = <<2, 1, 2>>

\* C25: whatever the expression and the page count, zero included, every
\* index parsePageRange returns lies in [0, totalPages - 1], so that the
\* indices splitPDF hands to copyPages are indices of the source document.
C25_IndicesInsideDocument ==
    rpc = "returned" => \A k \in 1..Len(pages) : pages[k] \in 0..(totalPages - 1)

C25_Witness ==
    /\ rpc = "returned"
    /\ range = <<"1", "-", "3", "-", "5">>
    /\ totalPages = 3
    /\ pages = <<0, 1, 2>>

\* C26: parsePageRange terminates for every expression and every totalPages:
\* each token contributes a finite loop, that is, every pass through `i++`
\* moves i strictly closer to `end`.  The statements are deterministic and
\* nothing else writes i or end, so a pass that leaves i where it was is
\* repeated for ever.
C26_EveryPassAdvances ==
    [][(loop.pc = "incr" /\ loop'.pc = "test")
           => (WideLeq(loop.i, loop'.i) /\ loop'.i # loop.i)]_vars

---------------------------------------------------------------------------
(* Claims about the handler and the engine methods *)

HasReturned(c) == calls[c].pc = "returned"

\* the JSON object in the text item of a returned call's envelope
Payload(c) == calls[c].result.content[1].text

Failed(c) == HasReturned(c) /\ calls[c].result.isError

Succeeded(c) == HasReturned(c) /\ ~calls[c].result.isError

\* the call's argument record breaks the declared schema of its operation
BreaksSchema(c) ==
    /\ calls[c].name \in ToolNames
    /\ calls[c].arguments.t = "object"
    /\ \/ \E f \in RequiredFields[calls[c].name] : calls[c].arguments.v[f] = Undefined
       \/ \E f \in DeclaredProperties[calls[c].name] :
             calls[c].arguments.v[f].t \notin {"undefined", DeclaredType[f]}

\* C3: an extract_pages call whose list holds a number outside [1, totalPages]
\* fails, and has written no file, wherever in the list the number stands.
C3_ExtractAllOrNothing ==
    \A c \in CallIds :
        (/\ calls[c].name = "extract_pages"
         /\ HasReturned(c)
         /\ calls[c].arguments.t = "object"
         /\ calls[c].arguments.v.pages.t = "array"
         /\ \E k \in 1..Len(calls[c].arguments.v.pages.v) :
                calls[c].arguments.v.pages.v[k] \notin 1..Len(calls[c].doc.pages))
        => (Failed(c) /\ calls[c].wrote = {})

\* C6: split_pdf with the empty range expression fails and writes no
\* output document.
C6_EmptyExpressionFails ==
    \A c \in CallIds :
        (/\ calls[c].name = "split_pdf"
         /\ HasReturned(c)
         /\ calls[c].arguments.t = "object"
         /\ calls[c].arguments.v.pageRange = Str(<<>>))
        => (Failed(c) /\ calls[c].wrote = {})

\* C7: every call the handler has finished returned a well-formed envelope
\* (one text item holding a JSON object, a failure carrying its message), no
\* error escaped to the transport, and a call in flight is suspended at an
\* await of its engine method, from which one of the actions resumes it.
C7_EveryCallYieldsEnvelope ==
    \A c \in CallIds :
        /\ ~calls[c].result.escaped
        /\ HasReturned(c) =>
              /\ Len(calls[c].result.content) = 1
              /\ calls[c].result.content[1].type = "text"
              /\ calls[c].result.isError =>
                    /\ "error" \in DOMAIN Payload(c)
                    /\ Payload(c).error.t = "string"
        /\ ~HasReturned(c) =>
              calls[c].pc \in {"stat", "create", "mergeRead", "mergeWrite",
                               "split", "update", "extractWrite"}

C7_Witness ==
    \E c, d \in CallIds :
        /\ Failed(c) /\ calls[c].invoked # "none"
        /\ Payload(c).error = Str("Cannot read properties of undefined (reading 'title')")
        /\ Succeeded(d)

\* C8: a call of a declared operation whose argument record lacks a required
\* field, or carries a field of the wrong primitive type, fails without the
\* engine method being invoked.
C8_InvalidArgumentsRejected ==
    \A c \in CallIds :
        BreaksSchema(c) =>
            /\ calls[c].invoked = "none"
            /\ HasReturned(c) => calls[c].result.isError

\* C9 as stated: every successful call of any of the seven operations carries
\* success: true, and every failed call success: false with an error string.
C9_UniformSuccessFlag ==
    \A c \in CallIds :
        /\ Succeeded(c) =>
              /\ "success" \in DOMAIN Payload(c)
              /\ Payload(c).success = Bool(TRUE)
        /\ Failed(c) =>
              /\ DOMAIN Payload(c) = {"success", "error"}
              /\ Payload(c).success = Bool(FALSE)
              /\ Payload(c).error.t = "string"

\* C9 as amended: a successful create_pdf, merge_pdfs, split_pdf,
\* update_pdf_metadata or extract_pages carries success: true plus its own
\* fields; a successful read_pdf carries text, pages and info, and a successful
\* get_pdf_info the information fields, neither with a success field; every
\* failed call carries success: false with an error string.
C9_EnvelopeShape ==
    \A c \in CallIds :
        /\ Succeeded(c) =>
              CASE calls[c].name \in {"create_pdf", "merge_pdfs", "split_pdf"} ->
                      /\ DOMAIN Payload(c) = {"success", "path", "pages"}
                      /\ Payload(c).success = Bool(TRUE)
                [] calls[c].name = "update_pdf_metadata" ->
                      /\ DOMAIN Payload(c) = {"success", "path"}
                      /\ Payload(c).success = Bool(TRUE)
                [] calls[c].name = "extract_pages" ->
                      /\ DOMAIN Payload(c) = {"success", "files"}
                      /\ Payload(c).success = Bool(TRUE)
                [] calls[c].name = "read_pdf" ->
                      DOMAIN Payload(c) = {"text", "pages", "info"}
                [] calls[c].name = "get_pdf_info" ->
                      /\ {"pages", "fileSize", "filePath"} \subseteq DOMAIN Payload(c)
                      /\ "success" \notin DOMAIN Payload(c)
        /\ Failed(c) =>
              /\ DOMAIN Payload(c) = {"success", "error"}
              /\ Payload(c).success = Bool(FALSE)
              /\ Payload(c).error.t = "string"

C9_Witness ==
    \E c, d \in CallIds :
        /\ Succeeded(c) /\ calls[c].name = "read_pdf"
        /\ "success" \notin DOMAIN Payload(c)
        /\ Succeeded(d) /\ calls[d].name = "merge_pdfs"
        /\ Payload(d).success = Bool(TRUE)

\* C10: at most one call is executing at any time: a call accepted from the
\* transport has returned before the handling of another call begins.
C10_OneCallAtATime ==
    Cardinality({c \in CallIds : ~HasReturned(c)}) <= 1

---------------------------------------------------------------------------
(* Claims about merge, split and extract *)

\* the pages of the sources listed in `srcs`, in list order, as `files` holds them
RECURSIVE SourcesPages(_, _)
SourcesPages(files, srcs) ==
    IF srcs = <<>> THEN <<>>
    ELSE files[Head(srcs)].pages \o SourcesPages(files, Tail(srcs))

RECURSIVE SumPageCounts(_, _)
SumPageCounts(files, srcs) ==
    IF srcs = <<>> THEN 0
    ELSE Len(files[Head(srcs)].pages) + SumPageCounts(files, Tail(srcs))

\* in this step call c, suspended at `pc`, returns with a success
ReturnsFrom(c, pc) ==
    /\ calls[c].pc = pc
    /\ calls'[c].pc = "returned"
    /\ ~calls'[c].result.isError

\* in this step call c, suspended at an await, returns with a failure
FailsNow(c) ==
    /\ calls[c].pc # "returned"
    /\ calls'[c].pc = "returned"
    /\ calls'[c].result.isError

\* C11: a merge whose sources are all readable writes at outputPath the
\* concatenation of the sources' page sequences in list order and reports
\* the sum of their page counts, a path listed twice counted twice; a merge
\* in flight fails only on a source that does not exist.
C11_MergeConcatenates ==
    [][\A c \in CallIds :
          LET a == calls[c].arguments.v
          IN  /\ ReturnsFrom(c, "mergeWrite") =>
                    /\ fs'[a.outputPath.v].pages = SourcesPages(fs, a.filePaths.v)
                    /\ calls'[c].result.content[1].text.pages
                          = NumV(SumPageCounts(fs, a.filePaths.v))
              /\ (calls[c].name = "merge_pdfs" /\ FailsNow(c)) =>
                    \E k \in 1..Len(a.filePaths.v) : a.filePaths.v[k] \notin DOMAIN fs
      ]_vars

C11_Witness ==
    \E c, d \in CallIds :
        /\ Succeeded(c)
        /\ calls[c].arguments.v.filePaths = Arr(<<"a.pdf", "a.pdf">>)
        /\ Payload(c).pages = NumV(4)
        /\ Succeeded(d)
        /\ calls[d].arguments.v.filePaths = Arr(<<"b.pdf", "a.pdf">>)
        /\ Payload(d).pages = NumV(3)
        /\ fs["m.pdf"].pages = <<"b1", "a1", "a2">>

\* the first path of `srcs` that `files` does not hold
FirstMissing(files, srcs) ==
    srcs[CHOOSE k \in 1..Len(srcs) :
            /\ srcs[k] \notin DOMAIN files
            /\ \A j \in 1..(k - 1) : srcs[j] \in DOMAIN files]

\* C12: a merge of an empty source list fails with the empty-source-set
\* message, and a merge whose list holds a path that does not exist, at
\* whatever position, fails with the source-not-found message naming that path.
C12_MergeRejectsBadSources ==
    \A c \in CallIds :
        LET srcs == calls[c].arguments.v.filePaths.v
        IN  (calls[c].name = "merge_pdfs" /\ HasReturned(c)) =>
                /\ srcs = <<>> =>
                      /\ Failed(c)
                      /\ Payload(c).error = Str("No PDF files provided for merging")
                /\ (\E k \in 1..Len(srcs) : srcs[k] \notin DOMAIN fs) =>
                      /\ Failed(c)
                      /\ Payload(c).error
                            = Str("File not found: " \o FirstMissing(fs, srcs))

C12_Witness ==
    \E c, d \in CallIds :
        /\ calls[c].arguments.v.filePaths = Arr(<<>>)
        /\ Payload(c).error = Str("No PDF files provided for merging")
        /\ calls[d].arguments.v.filePaths = Arr(<<"a.pdf", "missing.pdf">>)
        /\ Failed(d)
        /\ calls[d].acc = <<"a1", "a2">>
        /\ Payload(d).error = Str("File not found: missing.pdf")

C14_SplitCopiesResolvedPages ==
    [][\A c \in CallIds :
          LET a        == calls[c].arguments.v
              source   == calls[c].doc.pages
              resolved == ConcatExpansions(Tokens(a.pageRange.v))
          IN  (/\ calls[c].pc = "split"
               /\ calls'[c].pc = "returned"
               /\ a.pageRange.t = "string"
               /\ ValidExpression(a.pageRange.v, Len(source)))
              => /\ ~calls'[c].result.isError
                 /\ fs'[a.outputPath.v].pages
                       = [i \in 1..Len(resolved) |-> source[resolved[i]]]
                 /\ calls'[c].result.content[1].text.pages = NumV(Len(resolved))
      ]_vars

C14_Witness ==
    \E c \in CallIds :
        /\ calls[c].name = "split_pdf" /\ Succeeded(c)
        /\ calls[c].arguments.v.pageRange = Str(<<"2", ",", "2", ",", "1">>)
        /\ calls[c].doc.pages = <<"a1", "a2">>
        /\ Payload(c).pages = NumV(3)
        /\ fs["front.pdf"].pages = <<"a2", "a2", "a1">>

\* the decimal numeral of a natural number, as a sequence of characters
RECURSIVE Decimal(_)
Decimal(n) ==
    LET digit == CHOOSE ch \in DigitChars : DigitValue(ch) = n % 10
    IN  IF n < 10 THEN <<digit>> ELSE Decimal(n \div 10) \o <<digit>>

\* C15: round trip.  When merge([A, B]) has succeeded and a split then loads
\* the merged document with the expression "1-n", n the page count of A, the
\* split writes a document whose pages are A's pages in order, and reports n.
C15_MergeSplitRoundTrip ==
    [][\A s, m \in CallIds :
          LET srcs == calls[m].arguments.v.filePaths.v
              A    == fs[srcs[1]].pages
              sa   == calls[s].arguments.v
          IN  (/\ ReturnsFrom(s, "split")
               /\ calls[m].name = "merge_pdfs" /\ Succeeded(m)
               /\ Len(srcs) = 2
               /\ sa.filePath = calls[m].arguments.v.outputPath
               /\ calls[s].doc.pages = calls[m].acc
               /\ sa.pageRange = Str(<<"1", "-">> \o Decimal(Len(A))))
              => /\ fs'[sa.outputPath.v].pages = A
                 /\ calls'[s].result.content[1].text.pages = NumV(Len(A))
      ]_vars

C15_Witness ==
    \E s, m \in CallIds :
        /\ calls[m].name = "merge_pdfs" /\ Succeeded(m)
        /\ calls[m].arguments.v.filePaths = Arr(<<"a.pdf", "b.pdf">>)
        /\ calls[s].name = "split_pdf" /\ Succeeded(s)
        /\ calls[s].arguments.v.filePath = Str("m.pdf")
        /\ calls[s].arguments.v.pageRange = Str(<<"1", "-", "2">>)
        /\ calls[s].doc.pages = <<"a1", "a2", "b1">>
        /\ fs["front.pdf"].pages = <<"a1", "a2">>
        /\ Payload(s).pages = NumV(2)

\* the path documented for page n of an extract_pages call with arguments a
PagePath(a, n) ==
    a.outputDir.v \o "/" \o (IF a.prefix = Undefined THEN "page" ELSE a.prefix.v)
        \o "_" \o ToString(n) \o ".pdf"

\* C16: an extract_pages call whose numbers all lie in [1, totalPages]
\* succeeds; for each requested number n the path outputDir/prefix_n.pdf
\* (prefix "page" when none is given) holds a single-page document with the
\* source's page n; the call wrote these paths and no other, and returns
\* them in the order of the input list.
C16_ExtractOnePerNumber ==
    \A c \in CallIds :
        LET a    == calls[c].arguments.v
            nums == a.pages.v
        IN  (/\ calls[c].name = "extract_pages"
             /\ HasReturned(c)
             /\ \A k \in 1..Len(nums) : nums[k] \in 1..Len(calls[c].doc.pages))
            => /\ Succeeded(c)
               /\ Payload(c).files = Arr([k \in 1..Len(nums) |-> Str(PagePath(a, nums[k]))])
               /\ calls[c].wrote = {PagePath(a, nums[k]) : k \in 1..Len(nums)}
               /\ \A k \in 1..Len(nums) :
                     /\ PagePath(a, nums[k]) \in DOMAIN fs
                     /\ fs[PagePath(a, nums[k])].pages = <<calls[c].doc.pages[nums[k]]>>

C16_Witness ==
    \E c, d \in CallIds :
        /\ Succeeded(c)
        /\ calls[c].arguments.v.pages = Arr(<<2, 1>>)
        /\ Payload(c).files = Arr(<<Str("dir/page_2.pdf"), Str("dir/page_1.pdf")>>)
        /\ fs["dir/page_2.pdf"].pages = <<"a2">>
        /\ Succeeded(d)
        /\ calls[d].arguments.v.prefix = Str("p")
        /\ Payload(d).files = Arr(<<Str("out/p_1.pdf"), Str("out/p_2.pdf"), Str("out/p_1.pdf")>>)
        /\ fs["out/p_1.pdf"].pages = <<"a1">>

\* the single-page document extractPages saves for page number n of `doc`
PageDocument(doc, n) == [NoDoc EXCEPT !.pages = <<doc.pages[n]>>]

\* how often x occurs in the sequence s
Occurrences(s, x) == Cardinality({k \in 1..Len(s) : s[k] = x})

\* the returned list of a successful extractPages call: one entry per
\* requested number, a number requested k times gives its path k times, and
\* the files the call wrote are the distinct paths of the list
ExtractListMatchesWrites ==
    \A c \in CallIds :
        LET a     == calls[c].arguments.v
            nums  == a.pages.v
            files == Payload(c).files.v
        IN  (calls[c].name = "extract_pages" /\ Succeeded(c))
            => /\ Len(files) = Len(nums)
               /\ \A k \in 1..Len(nums) :
                     Occurrences(files, Str(PagePath(a, nums[k]))) = Occurrences(nums, nums[k])
               /\ calls[c].wrote = {files[k].v : k \in 1..Len(files)}

\* every pass of the loop of extractPages writes the file of its number and no
\* other, with the page of the document loaded at entry: k requests of one
\* number are k writes of one path with one content
ExtractWritesOncePerEntry ==
    \A c \in CallIds :
        (calls[c].pc = "extractWrite" /\ calls'[c] # calls[c])
        => LET a == calls[c].arguments.v
               n == a.pages.v[calls[c].i]
               p == PagePath(a, n)
           IN  /\ DOMAIN fs' = DOMAIN fs \cup {p}
               /\ fs'[p] = PageDocument(calls[c].doc, n)
               /\ \A q \in DOMAIN fs \ {p} : fs'[q] = fs[q]
               /\ calls'[c].wrote = calls[c].wrote \cup {p}

\* C28: after a successful extractPages call the returned list has one entry
\* per requested number and the set of files the call wrote is the set of
\* distinct paths in that list; a page number requested k times yields the
\* same path k times and a single file, written k times with identical content.
C28_ExtractListAndFiles ==
    /\ []ExtractListMatchesWrites
    /\ [][ExtractWritesOncePerEntry]_vars

C28_Witness ==
    \E c \in CallIds :
        /\ Succeeded(c)
        /\ calls[c].arguments.v.pages = Arr(<<1, 2, 1>>)
        /\ Payload(c).files =
               Arr(<<Str("out/p_1.pdf"), Str("out/p_2.pdf"), Str("out/p_1.pdf")>>)
        /\ calls[c].wrote = {"out/p_1.pdf", "out/p_2.pdf"}
        /\ fs["out/p_1.pdf"] = PageDocument(InitialFiles["a.pdf"], 1)

---------------------------------------------------------------------------
(* Claims about the metadata write *)

DescriptiveFields == {"title", "author", "subject", "keywords"}

\* C17: partial update.  In the document an update_pdf_metadata call writes,
\* each of title, author, subject and keywords is the request's value when
\* the request carries the field, the empty string included, and the loaded
\* source's value when it does not.
C17_PartialUpdate ==
    [][\A c \in CallIds :
          LET m == calls[c].arguments.v.metadata.v
          IN  ReturnsFrom(c, "update") =>
                 \A p \in calls'[c].wrote : \A f \in DescriptiveFields :
                     fs'[p][f] = IF m[f] # Undefined THEN m[f] ELSE calls[c].doc[f]
      ]_vars

\* an update_pdf_metadata call with an empty updates record
EmptyUpdates(call) ==
    call.name = "update_pdf_metadata" /\ call.arguments.v.metadata = Obj(NoMetadata)

C19_StoredAtSourceIffOmitted ==
    [][\A c \in CallIds :
          LET a == calls[c].arguments.v
          IN  ReturnsFrom(c, "update") =>
                 /\ (a.filePath.v \in calls'[c].wrote) <=> (a.outputPath = Undefined)
                 /\ (a.outputPath # Undefined /\ a.outputPath # a.filePath) =>
                       /\ calls'[c].wrote = {a.outputPath.v}
                       /\ fs'[a.filePath.v] = fs[a.filePath.v]
      ]_vars

---------------------------------------------------------------------------
(* Claims about the dispatch *)

\* the failure text names the operation that is not declared
IdentifiesUnknown(text, name) == text = Str("Unknown tool: " \o name)

\* C20: a call whose operation name is not declared returns a failure
\* envelope, success false with an error text identifying the unknown
\* operation; nothing escapes to the transport, no engine method is invoked
\* and no file is read or written.
C20_UnknownOperationRejected ==
    \A c \in CallIds :
        calls[c].name \notin ToolNames =>
            /\ Failed(c)
            /\ ~calls[c].result.escaped
            /\ Payload(c).success = Bool(FALSE)
            /\ IdentifiesUnknown(Payload(c).error, calls[c].name)
            /\ calls[c].invoked = "none"
            /\ calls[c].doc = NoDoc
            /\ calls[c].wrote = {}

\* C24: the operation name is looked up before the arguments are examined:
\* a call of an undeclared name is reported as an unknown operation even when
\* its argument record is missing or empty, and the arguments of a call are
\* found missing only for declared names.
C24_NameLookedUpFirst ==
    \A c \in CallIds :
        /\ (calls[c].name \notin ToolNames /\ calls[c].arguments \in {Undefined, Args(NoArgs)})
              => (Failed(c) /\ IdentifiesUnknown(Payload(c).error, calls[c].name))
        /\ (Failed(c) /\ Payload(c).error = Str("Missing arguments for tool call"))
              => calls[c].name \in ToolNames

---------------------------------------------------------------------------
(* Claims about reading *)

\* C21: a read_pdf call given a page range returns the text of the pages the
\* range selects, in the range's order, and of no other page; without a
\* page range it returns the text of the whole document.
C21_ReadReturnsSelectedPages ==
    \A c \in CallIds :
        LET a        == calls[c].arguments.v
            source   == calls[c].doc.pages
            resolved == ConcatExpansions(Tokens(a.pageRange.v))
        IN  (calls[c].name = "read_pdf" /\ Succeeded(c)) =>
               /\ a.pageRange = Undefined =>
                     Payload(c).text.v.body = source
               /\ (a.pageRange.t = "string" /\ a.pageRange.v # <<>>
                     /\ ValidExpression(a.pageRange.v, Len(source))) =>
                     Payload(c).text.v.body
                        = [i \in 1..Len(resolved) |-> source[resolved[i]]]

---------------------------------------------------------------------------
(* Claims about what one call can see of another *)

\* the paths a call reads
Sources(call) ==
    LET a == call.arguments.v
    IN  IF call.arguments.t # "object" THEN {}
        ELSE (IF a.filePath.t = "string" THEN {a.filePath.v} ELSE {})
             \cup (IF a.filePaths.t = "array"
                   THEN {a.filePaths.v[k] : k \in 1..Len(a.filePaths.v)} ELSE {})

\* no call has written a path that call c reads: c saw the storage of the start
Untouched(c) == \A k \in CallIds : calls[k].wrote \cap Sources(calls[c]) = {}

\* C22: nothing of a call survives in memory.  Whatever calls came before or
\* run beside it, successful or failed, a call whose sources no call has
\* written returns what its name, its arguments and the initial storage
\* determine: two calls with the same request return the same envelope, a
\* read_pdf or get_pdf_info of an initial file reports that file's page count
\* (and title), and a call on a path that is no file fails naming that path.
C22_ResultFromRequestAndStorage ==
    \A c \in CallIds :
        LET a == calls[c].arguments.v
            p == a.filePath
        IN  (HasReturned(c) /\ calls[c].arguments.t = "object" /\ Untouched(c)) =>
               /\ \A d \in CallIds :
                     (/\ HasReturned(d) /\ Untouched(d)
                      /\ calls[d].name = calls[c].name
                      /\ calls[d].arguments = calls[c].arguments)
                     => calls[d].result = calls[c].result
               /\ (calls[c].name \in {"read_pdf", "get_pdf_info"}
                     /\ p.t = "string" /\ p.v \in DOMAIN InitialFiles) =>
                     /\ Succeeded(c)
                     /\ Payload(c).pages = NumV(Len(InitialFiles[p.v].pages))
                     /\ calls[c].name = "get_pdf_info" =>
                           JsonStringify([title |-> InitialFiles[p.v].title])
                              = [f \in DOMAIN Payload(c) \cap {"title"} |-> Payload(c)[f]]
               /\ (calls[c].name \in ToolNames \ {"create_pdf", "merge_pdfs"}
                     /\ ~(p.t = "string" /\ p.v \in DOMAIN fs)) =>
                     /\ Failed(c)
                     /\ Payload(c).error = Str("File not found: " \o ToStr(p))

C22_Witness ==
    /\ Len(calls) = 2
    /\ Failed(1) /\ calls[1].invoked # "none"
    /\ calls[2].name = "get_pdf_info" /\ Succeeded(2)
    /\ calls[1].doc.pages = <<"a1", "a2">>
    /\ Payload(2).pages = NumV(1)
    /\ "title" \notin DOMAIN Payload(2)

---------------------------------------------------------------------------
(* Claims about the extension *)

\* the effects that only a working MCP registration lets the commands have
NoMcpEffect ==
    \A k \in 1..Len(ext.ui) :
        /\ ext.ui[k] # ReloadWindow
        /\ ext.ui[k].text \notin
              {"PDF Utilities configured successfully! Tools are available in GitHub Copilot Chat.",
               "Restarting PDF Utilities server... Please reload VS Code."}

\* one warning was shown for each configure or restart invocation
WarnedEachTime ==
    Len(SelectSeq(ext.ui, LAMBDA e : e.type = "showWarningMessage"))
       = Len(SelectSeq(ext.invoked, LAMBDA id : id # "pdfUtilities.viewDocs"))

Completed ==
    /\ ext.activated = "yes"
    /\ ext.commands = CommandIds
    /\ CommandIds \subseteq ext.subscriptions

\* C23 as stated: when the MCP registration API or the chat participant API
\* is absent, or MCP registration throws, activate completes without
\* throwing and registers the three commands, and configure and restart then
\* only show a warning, restart reloading no window.
C23_DegradedCommandsOnlyWarn ==
    (/\ ext.activated # "no"
     /\ \/ ext.env.mcpApi \in {"absent", "throws"}
        \/ ext.env.chatApi = "absent")
    => (Completed /\ NoMcpEffect /\ WarnedEachTime)

\* C23 as amended: in every host activate completes without throwing and
\* registers the three commands; MCP is available exactly when it is not
\* disabled and its registration API is present and does not throw, the chat
\* participant exactly when its API is present and does not throw; and when
\* MCP is not available, configure and restart only show a warning, restart
\* reloading no window.
C23_ActivationDegradesGracefully ==
    ext.activated # "no" =>
        /\ Completed
        /\ ext.mcpAvailable <=> (~ext.env.mcpDisabled /\ ext.env.mcpApi = "present")
        /\ ext.chatParticipantAvailable <=> (ext.env.chatApi = "present")
        /\ ~ext.mcpAvailable => (NoMcpEffect /\ WarnedEachTime)

C23_Witness ==
    /\ ext.env.mcpApi = "throws" /\ ~ext.env.mcpDisabled
    /\ ext.env.chatApi = "absent"
    /\ Completed
    /\ ext.invoked = <<"pdfUtilities.configure", "pdfUtilities.restart">>
    /\ Len(ext.ui) = 2
    /\ \A k \in 1..2 : ext.ui[k].type = "showWarningMessage"

\* the descriptive fields an update sets
SetFields(c) ==
    {f \in DescriptiveFields : Truthy(calls[c].arguments.v.metadata.v[f])}

\* an update_pdf_metadata call with outputPath left out
InPlaceUpdate(c) ==
    /\ calls[c].name = "update_pdf_metadata"
    /\ calls[c].arguments.t = "object"
    /\ calls[c].arguments.v.metadata.t = "object"
    /\ calls[c].arguments.v.outputPath = Undefined

\* C27: two update_pdf_metadata calls that overwrite the same file in place,
\* set different fields and were in flight together (each loaded the file
\* before the other wrote it, so both loaded the same document) leave a file
\* that carries the fields of both.
C27_NoUpdateLost ==
    \A c1, c2 \in CallIds :
        ( /\ c1 # c2
          /\ Len(calls) = 2
          /\ InPlaceUpdate(c1) /\ InPlaceUpdate(c2)
          /\ calls[c1].arguments.v.filePath = calls[c2].arguments.v.filePath
          /\ SetFields(c1) # {} /\ SetFields(c2) # {}
          /\ SetFields(c1) \cap SetFields(c2) = {}
          /\ Succeeded(c1) /\ Succeeded(c2)
          /\ calls[c1].doc = calls[c2].doc )
        => \A c \in {c1, c2} : \A f \in SetFields(c) :
               fs[calls[c].arguments.v.filePath.v][f] = calls[c].arguments.v.metadata.v[f]

---------------------------------------------------------------------------
(* Claims about what the reading tools leave alone *)

ReadingTools == {"read_pdf", "get_pdf_info", "merge_pdfs", "split_pdf", "extract_pages"}

\* the paths the caller names as outputs of a call
Outputs(call) ==
    LET a == call.arguments.v
    IN  IF call.arguments.t # "object" THEN {}
        ELSE IF call.name \in {"merge_pdfs", "split_pdf"}
        THEN (IF a.outputPath.t = "string" THEN {a.outputPath.v} ELSE {})
        ELSE IF call.name = "extract_pages" /\ a.pages.t = "array"
        THEN {PagePath(a, a.pages.v[k]) : k \in 1..Len(a.pages.v)}
        ELSE {}

\* the call the step belongs to: the one entered or the one resumed
Acts(c) == c > Len(calls) \/ calls'[c] # calls[c]

\* C29: read_pdf, get_pdf_info, merge_pdfs, split_pdf and extract_pages never
\* modify their source files: no step of such a call, on its way to success or
\* to failure, changes a source path's content, unless that path is also an
\* output path of the call.
C29_SourcesLeftAlone ==
    [][\A c \in 1..Len(calls') :
           (Acts(c) /\ calls'[c].name \in ReadingTools)
           => \A s \in (Sources(calls'[c]) \ Outputs(calls'[c])) \cap DOMAIN fs :
                  s \in DOMAIN fs' /\ fs'[s] = fs[s]]_vars

C29_Witness ==
    \E c, d \in CallIds :
        /\ calls[c].name = "split_pdf" /\ Succeeded(c)
        /\ calls[c].arguments.v.outputPath = Str("out.pdf")
        /\ calls[d].name = "merge_pdfs" /\ Failed(d)
        /\ fs["out.pdf"].pages = <<"a2">>
        /\ fs["a.pdf"] = InitialFiles["a.pdf"]
        /\ fs["b.pdf"] = InitialFiles["b.pdf"]

---------------------------------------------------------------------------
(* Claims about the @pdf chat handler *)

\* the attached PDFs of the request in hand, and those whose text can be read
Attached == SelectSeq(chat.references, IsPdfUri)

Readable(ref) == ref.reads # "fails"

ReadOk == SelectSeq(Attached, Readable)

\* the handler is past its reading loop
PastReading == chat.pc \in {"select", "fallback", "sent", "done"} /\ Attached # <<>>

\* C30: the @pdf handler sends a request to the language model only when at
\* least one attached PDF was read: with no PDF attached it answers with the
\* guidance, with every attached PDF unreadable it answers with an error, and
\* in both cases nothing is sent; a PDF that fails to read is reported and
\* the loop goes on, so that every readable PDF's text is collected, in order.
C30_ModelAskedOnlyWithAPdf ==
    /\ chat.sent # <<>> => ReadOk # <<>>
    /\ (chat.pc = "done" /\ Attached = <<>>)
          => /\ chat.response = <<Markdown("No PDF file detected", <<>>)>>
             /\ chat.sent = <<>>
    /\ (chat.pc = "done" /\ Attached # <<>> /\ ReadOk = <<>>)
          => /\ chat.response[Len(chat.response)] =
                    Markdown("Could not extract text from any", <<>>)
             /\ chat.sent = <<>>
    /\ PastReading
          => /\ \A k \in 1..Len(Attached) :
                    ~Readable(Attached[k])
                    => \E j \in 1..Len(chat.response) :
                           chat.response[j] =
                               Markdown("Could not read", Basename(Attached[k].fsPath))
             /\ chat.pdfContents =
                    [k \in 1..Len(ReadOk) |-> [file  |-> Basename(ReadOk[k].fsPath),
                                               pages |-> ReadOk[k].numPages]]

C30_Witness ==
    /\ chat.pc = "done"
    /\ Len(chat.references) = 2
    /\ chat.references[1].fsPath = <<"b", "a", "d", ".", "p", "d", "f">>
    /\ chat.references[2].fsPath = <<"d", "/", "a", ".", "p", "d", "f">>
    /\ chat.references[2].value = "uri"
    /\ Len(chat.sent) = 1
    /\ chat.sent[1].content = <<[file |-> <<"a", ".", "p", "d", "f">>, pages |-> 2]>>
    /\ \E j \in 1..Len(chat.response) :
           chat.response[j] = Markdown("Could not read", <<"b", "a", "d", ".", "p", "d", "f">>)

=============================================================================
